---- MODULE Spec2Model ----
(***************************************************************************)
(* Verification model of the IBF forecast pipeline (tehoro/ibf).           *)
(*                                                                         *)
(* The module holds one state machine per subsystem; each has its own      *)
(* specification and leaves the other subsystems' variables untouched:     *)
(*   SpecFetch    - api/open_meteo.py  _download_forecast                  *)
(*   SpecThin     - api/thin.py        select_members / _run_selection     *)
(*   SpecCache    - util/filesystem.py and the four JSON caches            *)
(*   SpecPipeline - pipeline/executor.py execute_pipeline                  *)
(*   SpecCost     - pipeline/executor.py _record_cost                      *)
(*   SpecSnow     - pipeline/executor.py snow-profile fetch                *)
(*   SpecGemini   - llm/client.py        _call_gemini                      *)
(*   SpecImpact   - api/impact.py        fetch_impact_context              *)
(*   SpecRefresh  - the refresh-interval skip policy                       *)
(*   SpecNaming   - util/naming.py       generate_unique_location_names    *)
(***************************************************************************)
EXTENDS Integers, Sequences, FiniteSets, TLC

VARIABLES
    \* ---- _download_forecast (api/open_meteo.py) ----
    fKind,        \* request.model_kind
    fHourly,      \* request.hourly_fields (<<>> models None)
    fPc,          \* "start" | "attempt" | "returned" | "raised"
    fCandidates,  \* hourly_candidates
    fCandIdx,     \* candidate_idx (1-based)
    fAttempt,     \* attempt (1..3)
    fLog,         \* the HTTP attempts made so far: <<[fields, outcome]>>
    \* ---- select_members / _run_selection (api/thin.py) ----
    tDays,        \* ensemble_days, the dataset handed to select_members
    tK,           \* thin_select
    tPc,          \* "start" | "loop" | "prune" | "done"
    tSelected,    \* selected (a list)
    tRemaining,   \* remaining (a set)
    tOut,         \* pruned_days, the returned dataset (<<>> until returned)
    \* ---- the JSON cache files (util/filesystem.py and their users) ----
    cKind,        \* which cache: "country" | "geocode" | "nwp" | "impact"
    cDisk,        \* the cache file: [state, entries]
    cTmp,         \* per worker: its mkstemp file, "none" | "partial" | "full"
    cLock,        \* holder of <file>.lock, 0 when free
    cPc,          \* per worker: position in the lookup
    cFound,       \* per worker: what its last read of the file found
    cCache,       \* per worker: the dict its last read returned (keys)
    cDeleted,     \* per worker: its last read unlinked the file
    cReadLocked,  \* per worker: lock held without release since its last read
    cResult,      \* per worker: "none" | "hit" | "miss"
    cKilledAt,    \* per worker: position at which the process was killed
    \* ---- execute_pipeline (pipeline/executor.py) ----
    pConfig,      \* config: [locs: number of locations, areas: member counts]
    pPc,          \* "start" | a stage | "summary" | "finished" | "aborted"
    pEnt,         \* index of the entity being processed (locations first)
    pMem,         \* index of the area member being collected (0: a location)
    pPayloads,    \* len(payloads) of the area being collected
    pDone,        \* per entity: "pending" | "rendered" | "skipped"
    pFailedIn,    \* the entities in which some stage has failed
    pCostLogged,  \* _log_cost_summary has run
    \* ---- _record_cost (pipeline/executor.py) ----
    kTracker,     \* _COST_TRACKER: label -> [present, context, forecast, translation]
    kPc,          \* per thread: position inside _record_cost
    kArgs,        \* per thread: the arguments of its _record_cost call
    kLoaded,      \* per thread: the value read by the += in progress
    \* ---- snow-profile fetch of _collect_location_payload (pipeline/executor.py) ----
    sUnsupported, \* _SNOW_PROFILE_UNSUPPORTED_MODELS
    sPc,          \* per thread: position in the snow-profile block
    sModel,       \* per thread: resolved_model.model_id of its location
    sLeft,        \* per thread: locations it has still to process
    sNullReturned, \* models whose profile fetch has returned only nulls
    sLateFetch,   \* models fetched again after such a return
    \* ---- _call_gemini (llm/client.py) ----
    gEnv,         \* os.environ: [gemini, google] for GEMINI_API_KEY / GOOGLE_API_KEY
    gPrev,        \* `previous` saved by temporary_environ
    gPc,          \* position inside _call_gemini
    gRound,       \* continuation rounds started by _maybe_continue_gemini
    gReason,      \* finish reason of the last response received
    gLog,         \* the SDK requests made: <<[kind, retry, env, after]>>
    \* ---- fetch_impact_context (api/impact.py) ----
    iProvider,    \* which provider context_llm selects: "gemini" or "openai"
    iKey,         \* whether the provider API key is configured
    iRate,        \* cents an answered provider call is priced at (1 throughout)
    iPc,          \* position inside fetch_impact_context and its caller
    iCombined,    \* `combined`: the text gathered so far
    iCost,        \* `cost_cents` accumulated by the generator
    iRound,       \* passes of the continuation loop completed
    iCalls,       \* provider calls made: <<[kind, outcome, chunk, missing]>>
    iResult,      \* the ImpactContext returned: [content, cost]
    \* ---- refresh-interval skip policy (pipeline/executor.py, web/scaffold.py) ----
    rGlobal,      \* config.minimum_refresh_minutes
    rOverride,    \* the entity's minimum_refresh_minutes (-1 models None)
    rPage,        \* <web_root>/<slug>/index.html: "absent" | "placeholder" | "real"
    rAge,         \* minutes since the page was written
    rPc,          \* "idle" | "decided"
    rSeen,        \* the page and age the last skip decision looked at
    rSkipped,     \* the last skip decision
    rRuns,        \* pipeline runs made so far
    \* ---- generate_unique_location_names (util/naming.py) ----
    nNames,       \* names: the configured location names, in order
    nKinds,       \* kinds: the model kind of each location
    nPc,          \* "start" | "assign" | "done"
    nIdx,         \* position of the second pass (1-based)
    nOccurrences, \* name_occurrences
    nResult,      \* result
    \* ---- a whole run and its side effects (cli.run, execute_pipeline) ----
    uEntry,       \* "cli" (ibf run) or "library" (execute_pipeline called directly)
    uDry,         \* the --dry-run option
    uMaps,        \* the --maps option
    uConfig,      \* [locs, areas]: numbers of configured locations and areas
    uDiskDirs,    \* directories that exist
    uDiskFiles,   \* files that exist
    uPc,          \* position of the run
    uIdx,         \* index of the entity being scaffolded or processed
    uDirs,        \* directories this run created
    uFiles,       \* files this run wrote
    uNet,         \* TRUE once this run made a network call
    \* ---- prompt snapshots (_snapshot_prompt, _cleanup_prompt_cache) ----
    qClock,       \* current time, in days
    qFiles,       \* timestamps of the snapshot files in ibf_cache/prompts, oldest first
    qLast,        \* the last cleanup: [ran, before, deleted, failed, now]
    \* ---- forecast-day resolution (_resolve_forecast_days, _limit_days) ----
    dRaw,         \* the configured day count: [kind, n]
    dFallback,    \* the fallback day count
    dDataset,     \* number of days in the processed dataset
    dPc,          \* position: start, resolved, limited
    dDays,        \* the resolved day count
    dOut,         \* number of days left by _limit_days
    \* ---- the last-cost tracker of the LLM client (_LAST_COST_CENTS) ----
    vEntity,      \* index of the entity being processed
    vStage,       \* "forecast" or "translation"
    vPc,          \* position: stage, called, continuing, returned, raised, finished
    vProvider,    \* provider of the call under way: "google" or "openai"
    vRound,       \* continuation requests made in the call under way
    vLast,        \* _LAST_COST_CENTS
    vOwn,         \* cost of the requests of the call under way
    vStale,       \* _LAST_COST_CENTS when the call under way began
    vRecord,      \* the last cost passed to _record_cost, with the call it was for
    \* ---- the NWP cache and its keys (fetch_forecast, _cache_key) ----
    wFiles,       \* NWP cache files: cache key -> hourly fields the stored payload was fetched with (<<>>: no file)
    wLast,        \* the last fetch_forecast call: [key, fields, result]
    \* ---- display names, slugs and output paths (generate_site_structure, execute_pipeline) ----
    hConfig,      \* [locs, areas, model]: locations [name, model], area names, global model
    hPc,          \* position: start, scaffolded, done
    hLabels,      \* display names of the locations as the scaffolder derives them
    hPlaceholders, \* slug of the placeholder directory of each entity, locations first
    hNames,       \* display names of the locations as the executor derives them
    hPages        \* slug of the output directory of each entity's page, locations first

fetchVars == <<fKind, fHourly, fPc, fCandidates, fCandIdx, fAttempt, fLog>>

thinVars == <<tDays, tK, tPc, tSelected, tRemaining, tOut>>

cacheVars == <<cKind, cDisk, cTmp, cLock, cPc, cFound, cCache, cDeleted,
               cReadLocked, cResult, cKilledAt>>

pipelineVars == <<pConfig, pPc, pEnt, pMem, pPayloads, pDone, pFailedIn,
                  pCostLogged>>

costVars == <<kTracker, kPc, kArgs, kLoaded>>

snowVars == <<sUnsupported, sPc, sModel, sLeft, sNullReturned, sLateFetch>>

geminiVars == <<gEnv, gPrev, gPc, gRound, gReason, gLog>>

impactVars == <<iProvider, iKey, iRate, iPc, iCombined, iCost, iRound, iCalls, iResult>>

refreshVars == <<rGlobal, rOverride, rPage, rAge, rPc, rSeen, rSkipped, rRuns>>

namingVars == <<nNames, nKinds, nPc, nIdx, nOccurrences, nResult>>

cliVars == <<uEntry, uDry, uMaps, uConfig, uDiskDirs, uDiskFiles, uPc, uIdx, uDirs, uFiles, uNet>>

snapshotVars == <<qClock, qFiles, qLast>>

daysVars == <<dRaw, dFallback, dDataset, dPc, dDays, dOut>>

llmVars == <<vEntity, vStage, vPc, vProvider, vRound, vLast, vOwn, vStale, vRecord>>

nwpVars == <<wFiles, wLast>>

pathsVars == <<hConfig, hPc, hLabels, hPlaceholders, hNames, hPages>>

vars ==
    <<fetchVars, thinVars, cacheVars, pipelineVars,
      costVars, snowVars, geminiVars, impactVars,
      refreshVars, namingVars, cliVars, snapshotVars,
      daysVars, llmVars, nwpVars, pathsVars>>

\* The subsystems a specification does not exercise stay in these states.
FetchIdle ==
    /\ fKind = "ensemble"
    /\ fHourly = <<>>
    /\ fPc = "idle"
    /\ fCandidates = <<>>
    /\ fCandIdx = 0
    /\ fAttempt = 0
    /\ fLog = <<>>

ThinIdle ==
    /\ tDays = <<>>
    /\ tK = 0
    /\ tPc = "idle"
    /\ tSelected = <<>>
    /\ tRemaining = {}
    /\ tOut = <<>>

\* Worker processes sharing one cache file.
Workers == {1, 2}

CacheIdle ==
    /\ cKind = "geocode"
    /\ cDisk = [state |-> "absent", entries |-> {}]
    /\ cTmp = [w \in Workers |-> "none"]
    /\ cLock = 0
    /\ cPc = [w \in Workers |-> "off"]
    /\ cFound = [w \in Workers |-> "none"]
    /\ cCache = [w \in Workers |-> {}]
    /\ cDeleted = [w \in Workers |-> FALSE]
    /\ cReadLocked = [w \in Workers |-> FALSE]
    /\ cResult = [w \in Workers |-> "none"]
    /\ cKilledAt = [w \in Workers |-> "none"]

PipelineIdle ==
    /\ pConfig = [locs |-> 0, areas |-> <<>>]
    /\ pPc = "off"
    /\ pEnt = 0
    /\ pMem = 0
    /\ pPayloads = 0
    /\ pDone = <<>>
    /\ pFailedIn = {}
    /\ pCostLogged = FALSE

CostIdle ==
    /\ kTracker = [l \in {"Location: a", "Location: b"} |->
                   [present |-> FALSE, context |-> 0, forecast |-> 0, translation |-> 0]]
    /\ kPc = [t \in {1, 2} |-> [step |-> "off", field |-> 0]]
    /\ kArgs = [t \in {1, 2} |->
                [label |-> "Location: a", context |-> 0, forecast |-> 0, translation |-> 0]]
    /\ kLoaded = [t \in {1, 2} |-> 0]

SnowIdle ==
    /\ sUnsupported = {}
    /\ sPc = [t \in {1, 2} |-> "off"]
    /\ sModel = [t \in {1, 2} |-> "none"]
    /\ sLeft = [t \in {1, 2} |-> 0]
    /\ sNullReturned = {}
    /\ sLateFetch = {}

GeminiIdle ==
    /\ gEnv = [gemini |-> "key", google |-> "unset"]
    /\ gPrev = [gemini |-> "key", google |-> "unset"]
    /\ gPc = "off"
    /\ gRound = 0
    /\ gReason = ""
    /\ gLog = <<>>

ImpactIdle ==
    /\ iProvider = "gemini"
    /\ iKey = FALSE
    /\ iRate = 0
    /\ iPc = "off"
    /\ iCombined = [heads |-> <<>>, trunc |-> FALSE]
    /\ iCost = 0
    /\ iRound = 0
    /\ iCalls = <<>>
    /\ iResult = [content |-> <<>>, cost |-> 0]

RefreshIdle ==
    /\ rGlobal = 0
    /\ rOverride = 0 - 1
    /\ rPage = "absent"
    /\ rAge = 0
    /\ rPc = "off"
    /\ rSeen = [page |-> "absent", age |-> 0]
    /\ rSkipped = FALSE
    /\ rRuns = 0

NamingIdle ==
    /\ nNames = <<>>
    /\ nKinds = <<>>
    /\ nPc = "off"
    /\ nIdx = 0
    /\ nOccurrences = <<>>
    /\ nResult = <<>>

CliIdle ==
    /\ uEntry = "off"
    /\ uDry = FALSE
    /\ uMaps = FALSE
    /\ uConfig = [locs |-> 0, areas |-> 0]
    /\ uDiskDirs = {}
    /\ uDiskFiles = {}
    /\ uPc = "off"
    /\ uIdx = 0
    /\ uDirs = {}
    /\ uFiles = {}
    /\ uNet = FALSE

SnapshotIdle ==
    /\ qClock = 0
    /\ qFiles = <<>>
    /\ qLast = [ran |-> FALSE, before |-> <<>>, deleted |-> {}, failed |-> {}, now |-> 0]

DaysIdle ==
    /\ dRaw = [kind |-> "none", n |-> 0]
    /\ dFallback = 0
    /\ dDataset = 0
    /\ dPc = "off"
    /\ dDays = 0
    /\ dOut = 0

LlmIdle ==
    /\ vEntity = 0
    /\ vStage = "forecast"
    /\ vPc = "off"
    /\ vProvider = "google"
    /\ vRound = 0
    /\ vLast = 0
    /\ vOwn = 0
    /\ vStale = 0
    /\ vRecord = [entity |-> 0, stage |-> "forecast", cents |-> 0, own |-> 0, stale |-> 0]

NwpIdle ==
    /\ wFiles = <<>>
    /\ wLast = [key |-> <<>>, fields |-> <<>>, result |-> "none"]

PathsIdle ==
    /\ hConfig = [locs |-> <<>>, areas |-> <<>>, model |-> "none"]
    /\ hPc = "off"
    /\ hLabels = <<>>
    /\ hPlaceholders = <<>>
    /\ hNames = <<>>
    /\ hPages = <<>>

nonFetchVars ==
    <<thinVars, cacheVars, pipelineVars, costVars,
      snowVars, geminiVars, impactVars, refreshVars,
      namingVars, cliVars, snapshotVars, daysVars,
      llmVars, nwpVars, pathsVars>>

nonThinVars ==
    <<fetchVars, cacheVars, pipelineVars, costVars,
      snowVars, geminiVars, impactVars, refreshVars,
      namingVars, cliVars, snapshotVars, daysVars,
      llmVars, nwpVars, pathsVars>>

nonCacheVars ==
    <<fetchVars, thinVars, pipelineVars, costVars,
      snowVars, geminiVars, impactVars, refreshVars,
      namingVars, cliVars, snapshotVars, daysVars,
      llmVars, nwpVars, pathsVars>>

nonPipelineVars ==
    <<fetchVars, thinVars, cacheVars, costVars,
      snowVars, geminiVars, impactVars, refreshVars,
      namingVars, cliVars, snapshotVars, daysVars,
      llmVars, nwpVars, pathsVars>>

nonCostVars ==
    <<fetchVars, thinVars, cacheVars, pipelineVars,
      snowVars, geminiVars, impactVars, refreshVars,
      namingVars, cliVars, snapshotVars, daysVars,
      llmVars, nwpVars, pathsVars>>

nonSnowVars ==
    <<fetchVars, thinVars, cacheVars, pipelineVars,
      costVars, geminiVars, impactVars, refreshVars,
      namingVars, cliVars, snapshotVars, daysVars,
      llmVars, nwpVars, pathsVars>>

nonGeminiVars ==
    <<fetchVars, thinVars, cacheVars, pipelineVars,
      costVars, snowVars, impactVars, refreshVars,
      namingVars, cliVars, snapshotVars, daysVars,
      llmVars, nwpVars, pathsVars>>

nonImpactVars ==
    <<fetchVars, thinVars, cacheVars, pipelineVars,
      costVars, snowVars, geminiVars, refreshVars,
      namingVars, cliVars, snapshotVars, daysVars,
      llmVars, nwpVars, pathsVars>>

nonRefreshVars ==
    <<fetchVars, thinVars, cacheVars, pipelineVars,
      costVars, snowVars, geminiVars, impactVars,
      namingVars, cliVars, snapshotVars, daysVars,
      llmVars, nwpVars, pathsVars>>

nonNamingVars ==
    <<fetchVars, thinVars, cacheVars, pipelineVars,
      costVars, snowVars, geminiVars, impactVars,
      refreshVars, cliVars, snapshotVars, daysVars,
      llmVars, nwpVars, pathsVars>>

nonCliVars ==
    <<fetchVars, thinVars, cacheVars, pipelineVars,
      costVars, snowVars, geminiVars, impactVars,
      refreshVars, namingVars, snapshotVars, daysVars,
      llmVars, nwpVars, pathsVars>>

nonSnapshotVars ==
    <<fetchVars, thinVars, cacheVars, pipelineVars,
      costVars, snowVars, geminiVars, impactVars,
      refreshVars, namingVars, cliVars, daysVars,
      llmVars, nwpVars, pathsVars>>

nonDaysVars ==
    <<fetchVars, thinVars, cacheVars, pipelineVars,
      costVars, snowVars, geminiVars, impactVars,
      refreshVars, namingVars, cliVars, snapshotVars,
      llmVars, nwpVars, pathsVars>>

nonLlmVars ==
    <<fetchVars, thinVars, cacheVars, pipelineVars,
      costVars, snowVars, geminiVars, impactVars,
      refreshVars, namingVars, cliVars, snapshotVars,
      daysVars, nwpVars, pathsVars>>

nonNwpVars ==
    <<fetchVars, thinVars, cacheVars, pipelineVars,
      costVars, snowVars, geminiVars, impactVars,
      refreshVars, namingVars, cliVars, snapshotVars,
      daysVars, llmVars, pathsVars>>

nonPathsVars ==
    <<fetchVars, thinVars, cacheVars, pipelineVars,
      costVars, snowVars, geminiVars, impactVars,
      refreshVars, namingVars, cliVars, snapshotVars,
      daysVars, llmVars, nwpVars>>

(***************************************************************************)
(* Generic helpers                                                         *)
(***************************************************************************)
Range(s) == {s[i] : i \in 1..Len(s)}

Contains(s, x) == x \in Range(s)

(***************************************************************************)
(* api/open_meteo.py : hourly field lists                                  *)
(***************************************************************************)
HOURLY_FIELDS_BASE ==
    <<"temperature_2m", "dewpoint_2m", "precipitation", "snowfall",
      "weather_code", "cloud_cover", "wind_speed_10m",
      "wind_direction_10m", "wind_gusts_10m">>

HOURLY_FIELDS_DETERMINISTIC ==
    HOURLY_FIELDS_BASE \o <<"precipitation_probability", "freezing_level_height">>

\* One pressure level is kept of the six: the list only has to differ from the
\* default lists and to hold no freezing_level_height token.
HOURLY_FIELDS_SNOW_PROFILE ==
    <<"surface_pressure", "temperature_850hPa",
      "relative_humidity_850hPa", "geopotential_height_850hPa">>

\* _hourly_fields_for(request)
HourlyFieldsFor(kind, hourly) ==
    IF hourly # <<>> THEN hourly
    ELSE IF kind = "ensemble" THEN HOURLY_FIELDS_BASE
    ELSE HOURLY_FIELDS_DETERMINISTIC

\* A plausible slip: the token filter keeps everything.
RemoveHourlyFieldKeepsAll(fields, name) == fields

\* _remove_hourly_field(fields, name)
RemoveHourlyField(fields, name) ==
    SelectSeq(fields, LAMBDA tok : tok # name)

\* hourly_candidates as built at the top of _download_forecast
HourlyCandidates(kind, hourly) ==
    LET primary == HourlyFieldsFor(kind, hourly)
        reduced == RemoveHourlyField(primary, "freezing_level_height")
    IN  IF /\ kind = "deterministic"
           /\ hourly = <<>>
           /\ Contains(primary, "freezing_level_height")
           /\ reduced # <<>>
           /\ reduced # primary
        THEN <<primary, reduced>>
        ELSE <<primary>>

\* range(1, 4): attempts per candidate
MaxAttempts == 3

\* What one requests.get / raise_for_status / json / _validate_response can do.
FailureOutcomes == {"http_other", "transport", "bad_json", "invalid"}

(***************************************************************************)
(* _download_forecast as a state machine                                   *)
(***************************************************************************)
FetchInit ==
    /\ ThinIdle
    /\ CacheIdle
    /\ PipelineIdle
    /\ CostIdle
    /\ SnowIdle
    /\ GeminiIdle
    /\ ImpactIdle
    /\ RefreshIdle
    /\ NamingIdle
    /\ CliIdle
    /\ SnapshotIdle
    /\ DaysIdle
    /\ LlmIdle
    /\ NwpIdle
    /\ PathsIdle
    /\ fKind \in {"ensemble", "deterministic"}
    /\ fHourly \in {<<>>, HOURLY_FIELDS_SNOW_PROFILE}
    /\ (fHourly # <<>> => fKind = "deterministic")
    /\ fPc = "start"
    /\ fCandidates = <<>>
    /\ fCandIdx = 0
    /\ fAttempt = 0
    /\ fLog = <<>>

\* lines 399-420: build the candidate list, enter the loops
DownloadStart ==
    /\ fPc = "start"
    /\ fCandidates' = HourlyCandidates(fKind, fHourly)
    /\ fCandIdx' = 1
    /\ fAttempt' = 1
    /\ fPc' = "attempt"
    /\ UNCHANGED <<fKind, fHourly, fLog>>
    /\ UNCHANGED nonFetchVars

Logged(outcome) ==
    Append(fLog, [fields |-> fCandidates[fCandIdx], outcome |-> outcome])

\* A plausible slip: range(1, 5), one attempt too many per candidate.
AfterFailedAttemptOffByOne ==
    IF fAttempt < MaxAttempts + 1
    THEN /\ fAttempt' = fAttempt + 1
         /\ UNCHANGED <<fCandIdx, fPc>>
    ELSE IF fCandIdx < Len(fCandidates)
    THEN /\ fCandIdx' = fCandIdx + 1
         /\ fAttempt' = 1
         /\ UNCHANGED fPc
    ELSE /\ fPc' = "raised"
         /\ UNCHANGED <<fCandIdx, fAttempt>>

\* The tail of the inner loop body (lines 476-477) and the loop headers: next
\* attempt, else next candidate, else the raise of line 479.
AfterFailedAttempt ==
    IF fAttempt < MaxAttempts
    THEN /\ fAttempt' = fAttempt + 1
         /\ UNCHANGED <<fCandIdx, fPc>>
    ELSE IF fCandIdx < Len(fCandidates)
    THEN /\ fCandIdx' = fCandIdx + 1
         /\ fAttempt' = 1
         /\ UNCHANGED fPc
    ELSE /\ fPc' = "raised"
         /\ UNCHANGED <<fCandIdx, fAttempt>>

\* lines 449-454: the response validates, the payload is returned
AttemptSucceeds ==
    /\ fPc = "attempt"
    /\ fLog' = Logged("ok")
    /\ fPc' = "returned"
    /\ UNCHANGED <<fKind, fHourly, fCandidates, fCandIdx, fAttempt>>
    /\ UNCHANGED nonFetchVars

\* A plausible slip: the 400 branch without its break, so a rejected field set
\* is retried like any other failure.
AttemptRejected400NoBreak ==
    /\ fPc = "attempt"
    /\ fLog' = Logged("http400")
    /\ AfterFailedAttempt
    /\ UNCHANGED <<fKind, fHourly, fCandidates>>
    /\ UNCHANGED nonFetchVars

\* lines 455-465: requests.HTTPError with status 400
AttemptRejected400 ==
    /\ fPc = "attempt"
    /\ fLog' = Logged("http400")
    /\ IF fCandIdx < Len(fCandidates)
       THEN \* break: on to the fallback candidate
            /\ fCandIdx' = fCandIdx + 1
            /\ fAttempt' = 1
            /\ UNCHANGED fPc
       ELSE AfterFailedAttempt
    /\ UNCHANGED <<fKind, fHourly, fCandidates>>
    /\ UNCHANGED nonFetchVars

\* lines 455-474: any other HTTP status, a transport error, malformed JSON or a
\* payload _validate_response rejects
AttemptFails ==
    /\ fPc = "attempt"
    /\ \E outcome \in FailureOutcomes : fLog' = Logged(outcome)
    /\ AfterFailedAttempt
    /\ UNCHANGED <<fKind, fHourly, fCandidates>>
    /\ UNCHANGED nonFetchVars

FetchNext ==
    \/ DownloadStart
    \/ AttemptSucceeds
    \/ AttemptRejected400
    \/ AttemptFails

SpecFetch == FetchInit /\ [][FetchNext]_vars

(***************************************************************************)
(* Claims about _download_forecast                                         *)
(***************************************************************************)
AttemptsWith(fields) == {i \in 1..Len(fLog) : fLog[i].fields = fields}

FetchEnded == fPc \in {"returned", "raised"}

\* The field set the client falls back to after a rejected enriched request.
ReducedDeterministicFields == HOURLY_FIELDS_BASE \o <<"precipitation_probability">>

\* Positions at which the enriched default field set was rejected with HTTP 400.
EnrichedRejections ==
    {i \in 1..Len(fLog) :
        /\ fLog[i].fields = HOURLY_FIELDS_DETERMINISTIC
        /\ fLog[i].outcome = "http400"}

\* C4 (as stated): one forecast fetch makes at most 3 HTTP attempts in total
\* before it returns or raises.
C4_AtMostThreeAttemptsInTotal == Len(fLog) <= MaxAttempts

\* C4 (amended): at most 3 attempts are made per hourly field set; a request
\* with a fallback field set (deterministic, default fields) makes at most 6
\* attempts in total and every other request at most 3.
C4_AtMostThreeAttemptsPerFieldSet ==
    fPc # "start" =>
        /\ \A c \in 1..Len(fCandidates) :
               Cardinality(AttemptsWith(fCandidates[c])) <= MaxAttempts
        /\ Len(fLog) <= MaxAttempts * Len(fCandidates)
        /\ Len(fCandidates) <= 2
        /\ (fKind = "ensemble" \/ fHourly # <<>>) => Len(fCandidates) = 1

\* C4 witness: a deterministic fetch that raised after 3 attempts with each of
\* its two field sets.
C4_Witness ==
    /\ fPc = "raised"
    /\ Len(fLog) = 2 * MaxAttempts
    /\ Cardinality(AttemptsWith(HOURLY_FIELDS_DETERMINISTIC)) = MaxAttempts

\* C5 (as stated): an HTTP 400 is never followed by another attempt with the
\* same hourly field set.
C5_Rejected400NeverRetriedWithSameFields ==
    \A i \in 1..(Len(fLog) - 1) :
        fLog[i].outcome = "http400" => fLog[i + 1].fields # fLog[i].fields

\* C5 (amended): an HTTP 400 on a field set that still has a fallback candidate
\* is never followed by another attempt with the same field set; the next
\* attempt uses the fallback candidate.
C5_Rejected400SwitchesToFallback ==
    \A i \in 1..Len(fLog) :
        (/\ fLog[i].outcome = "http400"
         /\ Len(fCandidates) = 2
         /\ fLog[i].fields = fCandidates[1])
        => /\ fCandIdx = 2
           /\ i < Len(fLog) =>
                  /\ fLog[i + 1].fields = fCandidates[2]
                  /\ fLog[i + 1].fields # fLog[i].fields

\* C5 witness: a rejected enriched request followed by an attempt with the
\* fallback field set.
C5_Witness ==
    \E i \in EnrichedRejections :
        /\ i < Len(fLog)
        /\ fLog[i + 1].fields # fLog[i].fields

\* C6 (as stated): after a 400 on the enriched set of a deterministic request
\* exactly one further attempt is made, and it uses the base field set.
C6_OneFurtherAttemptWithBaseSet ==
    \A i \in EnrichedRejections :
        /\ Len(fLog) <= i + 1
        /\ FetchEnded => Len(fLog) = i + 1
        /\ i < Len(fLog) => fLog[i + 1].fields = HOURLY_FIELDS_BASE

\* C6 (amended): after a 400 on the enriched set of a deterministic request
\* every further attempt uses the enriched set without freezing_level_height
\* (the base set plus precipitation_probability), and at least one and at most
\* three such attempts are made.
C6_FallbackAttemptsUseReducedSet ==
    \A i \in EnrichedRejections :
        /\ \A j \in (i + 1)..Len(fLog) : fLog[j].fields = ReducedDeterministicFields
        /\ Len(fLog) - i <= MaxAttempts
        /\ FetchEnded => Len(fLog) - i >= 1

\* C6 witness: the enriched set was rejected and the fetch went on to return
\* a payload on its second attempt with the reduced set.
C6_Witness ==
    \E i \in EnrichedRejections :
        /\ fPc = "returned"
        /\ Len(fLog) = i + 2
        /\ fLog[i + 2].fields = ReducedDeterministicFields
        /\ fLog[i + 2].fields # HOURLY_FIELDS_BASE

(***************************************************************************)
(* api/thin.py : ensemble thinning                                         *)
(*                                                                         *)
(* A dataset is a sequence of days; a day is [date, hours]; an hour is     *)
(* [hour, ensemble_members] with ensemble_members a function from the      *)
(* member ids present in that hour to [temperature, precipitation].        *)
(* build_processed_days leaves out a member record whose source values are *)
(* missing, so hours of one dataset may hold different member sets; it     *)
(* drops hours without any member.                                         *)
(***************************************************************************)
\* Member ids in lexicographic (sorted()) order.
MemberOrder == <<"member00", "member01", "member02">>

MemberIds == Range(MemberOrder)

MemberRank(m) == CHOOSE i \in 1..Len(MemberOrder) : MemberOrder[i] = m

\* Values a member record can hold in the model.
MemberRecords ==
    {[temperature |-> 0, precipitation |-> 0],
     [temperature |-> 1, precipitation |-> 0],
     [temperature |-> 0, precipitation |-> 1]}

\* The hours of the model datasets, and the ways they are split into days.
HourKeys == <<"00:00", "01:00">>

DayShapes == {<<<<1, 2>>>>, <<<<1>>, <<2>>>>}

\* Largest thin_select tried.
MaxThin == 4

\* Fixed-point resolution standing in for the floats of _run_selection.
Scale == 100

\* weight_temp, weight_precip defaults
WeightTemp == 1

WeightPrecip == 1

\* Every non-empty partial map from member ids to records.
HourMembers ==
    UNION {[ms -> MemberRecords] : ms \in (SUBSET MemberIds) \ {{}}}

\* The datasets build_processed_days can hand over: one member map per hour.
ThinDatasets ==
    {[d \in 1..Len(shape) |->
        [date |-> d,
         hours |-> [h \in 1..Len(shape[d]) |->
                      [hour |-> HourKeys[shape[d][h]],
                       ensemble_members |-> content[shape[d][h]]]]]] :
        shape \in DayShapes, content \in [1..Len(HourKeys) -> HourMembers]}

RECURSIVE AllHours(_)
\* for day in ensemble_days: for hour in day["hours"]
AllHours(days) ==
    IF days = <<>> THEN <<>>
    ELSE Head(days).hours \o AllHours(Tail(days))

RECURSIVE KeysInOrder(_, _, _)
\* Insertion order of the members dict of _flatten_members: first appearance,
\* hour by hour, each hour's members in sorted order.
KeysInOrder(hours, rank, acc) ==
    IF hours = <<>> THEN acc
    ELSE IF rank > Len(MemberOrder) THEN KeysInOrder(Tail(hours), 1, acc)
    ELSE LET m == MemberOrder[rank]
         IN  IF m \in DOMAIN Head(hours).ensemble_members /\ ~Contains(acc, m)
             THEN KeysInOrder(hours, rank + 1, Append(acc, m))
             ELSE KeysInOrder(hours, rank + 1, acc)

RECURSIVE SeriesOf(_, _, _)
\* _flatten_members: the values of one field of one member, over the hours
\* that hold that member.
SeriesOf(hours, m, field) ==
    IF hours = <<>> THEN <<>>
    ELSE IF m \in DOMAIN Head(hours).ensemble_members
    THEN <<Head(hours).ensemble_members[m][field]>> \o SeriesOf(Tail(hours), m, field)
    ELSE SeriesOf(Tail(hours), m, field)

FlattenMembers(days) ==
    LET hours == AllHours(days)
        keys  == KeysInOrder(hours, 1, <<>>)
    IN  [keys |-> keys,
         series |-> [m \in Range(keys) |->
                       [temperature |-> SeriesOf(hours, m, "temperature"),
                        precipitation |-> SeriesOf(hours, m, "precipitation")]]]

SeqMin(s) == CHOOSE x \in Range(s) : \A y \in Range(s) : x <= y

SeqMax(s) == CHOOSE x \in Range(s) : \A y \in Range(s) : x >= y

RECURSIVE SeqSum(_)
SeqSum(s) == IF s = <<>> THEN 0 ELSE Head(s) + SeqSum(Tail(s))

RECURSIVE IsqrtBetween(_, _, _)
\* floor(sqrt(n)) by bisection on lo..hi
IsqrtBetween(n, lo, hi) ==
    IF lo >= hi THEN lo
    ELSE LET mid == (lo + hi + 1) \div 2
         IN  IF mid * mid <= n THEN IsqrtBetween(n, mid, hi)
             ELSE IsqrtBetween(n, lo, mid - 1)

Isqrt(n) == IsqrtBetween(n, 0, n)

\* normalize(series, min_value, max_value), in units of 1/Scale
Normalize(series, lo, hi) ==
    IF hi = lo THEN [i \in 1..Len(series) |-> 0]
    ELSE [i \in 1..Len(series) |-> ((series[i] - lo) * Scale) \div (hi - lo)]

\* rms(a, b): zip stops at the shorter list
Rms(a, b) ==
    LET n == IF Len(a) < Len(b) THEN Len(a) ELSE Len(b)
    IN  IF n = 0 THEN 0
        ELSE Isqrt(SeqSum([i \in 1..n |-> (a[i] - b[i]) * (a[i] - b[i])]) \div n)

\* The normalized dict of _run_selection.
Normalized(flat) ==
    LET ks == Range(flat.keys)
        allT == UNION {Range(flat.series[m].temperature) : m \in ks}
        allP == UNION {Range(flat.series[m].precipitation) : m \in ks}
        minT == CHOOSE x \in allT : \A y \in allT : x <= y
        maxT == CHOOSE x \in allT : \A y \in allT : x >= y
        minP == CHOOSE x \in allP : \A y \in allP : x <= y
        maxP == CHOOSE x \in allP : \A y \in allP : x >= y
    IN  [m \in ks |->
           [temperature |-> Normalize(flat.series[m].temperature, minT, maxT),
            precipitation |-> Normalize(flat.series[m].precipitation, minP, maxP)]]

\* avg_distance of one candidate against the members selected so far
AvgDistance(norm, candidate, selected) ==
    LET dist == [i \in 1..Len(selected) |->
                   WeightTemp * Rms(norm[candidate].temperature,
                                    norm[selected[i]].temperature)
                   + WeightPrecip * Rms(norm[candidate].precipitation,
                                        norm[selected[i]].precipitation)]
    IN  IF Len(selected) = 0 THEN 0 ELSE SeqSum(dist) \div Len(selected)

RECURSIVE BestMember(_, _, _, _, _)
\* The inner for loop over `remaining`, in the iteration order `order`:
\* a candidate replaces the best so far only when strictly farther.
\* best = "" stands for None with best_distance = -inf.
BestMember(norm, order, selected, best, bestDistance) ==
    IF order = <<>> THEN best
    ELSE LET c == Head(order)
             d == AvgDistance(norm, c, selected)
         IN  IF best = "" \/ d > bestDistance
             THEN BestMember(norm, Tail(order), selected, c, d)
             ELSE BestMember(norm, Tail(order), selected, best, bestDistance)

\* The orders in which a Python set of strings can be iterated.
IterationOrders(S) ==
    {o \in [1..Cardinality(S) -> S] : \A i, j \in 1..Cardinality(S) : o[i] = o[j] => i = j}

\* A plausible slip: seeding with the last member instead of the control.
SeedMemberLast(keys) ==
    MemberOrder[CHOOSE r \in {MemberRank(m) : m \in Range(keys)} :
                    \A q \in {MemberRank(m) : m \in Range(keys)} : r >= q]

\* selected = ["member00"] if "member00" in members else [sorted(members.keys())[0]]
SeedMember(keys) ==
    IF Contains(keys, "member00") THEN "member00"
    ELSE MemberOrder[CHOOSE r \in {MemberRank(m) : m \in Range(keys)} :
                         \A q \in {MemberRank(m) : m \in Range(keys)} : r <= q]

\* A plausible slip: <= in the loop condition, one member too many.
LoopContinuesOffByOne(selected, remaining, k) ==
    Len(selected) <= k /\ remaining # {}

\* while len(selected) < thin_select and remaining
LoopContinues(selected, remaining, k) ==
    Len(selected) < k /\ remaining # {}

\* A plausible slip: filtering by selected[1:], which loses the seed.
FilterMembersDropsFirst(members, selected) ==
    [m \in {selected[i] : i \in 2..Len(selected)} \cap DOMAIN members |-> members[m]]

\* filtered_members = {key: members[key] for key in selected if key in members}
FilterMembers(members, selected) ==
    [m \in Range(selected) \cap DOMAIN members |-> members[m]]

\* pruned_days of select_members
PrunedDays(days, selected) ==
    [d \in 1..Len(days) |->
       [days[d] EXCEPT !.hours =
          [h \in 1..Len(days[d].hours) |->
             [hour |-> days[d].hours[h].hour,
              ensemble_members |->
                  FilterMembers(days[d].hours[h].ensemble_members, selected)]]]]

ThinInit ==
    /\ FetchIdle
    /\ CacheIdle
    /\ PipelineIdle
    /\ CostIdle
    /\ SnowIdle
    /\ GeminiIdle
    /\ ImpactIdle
    /\ RefreshIdle
    /\ NamingIdle
    /\ CliIdle
    /\ SnapshotIdle
    /\ DaysIdle
    /\ LlmIdle
    /\ NwpIdle
    /\ PathsIdle
    /\ tDays \in ThinDatasets
    /\ tK \in 0..MaxThin
    /\ tPc = "start"
    /\ tSelected = <<>>
    /\ tRemaining = {}
    /\ tOut = <<>>

\* select_members lines 41-45 and _run_selection lines 74-75, 103-104:
\* flatten, then either the early return or the seed.
ThinStart ==
    /\ tPc = "start"
    /\ LET flat == FlattenMembers(tDays)
       IN  IF Len(flat.keys) <= tK
           THEN /\ tSelected' = flat.keys
                /\ tRemaining' = {}
                /\ tPc' = "prune"
           ELSE /\ tSelected' = <<SeedMember(flat.keys)>>
                /\ tRemaining' = Range(flat.keys) \ {SeedMember(flat.keys)}
                /\ tPc' = "loop"
    /\ UNCHANGED <<tDays, tK, tOut>>
    /\ UNCHANGED nonThinVars

\* _run_selection lines 106-124: one pass of the while loop
ThinPick ==
    /\ tPc = "loop"
    /\ LoopContinues(tSelected, tRemaining, tK)
    /\ \E order \in IterationOrders(tRemaining) :
         LET best == BestMember(Normalized(FlattenMembers(tDays)), order,
                                tSelected, "", 0)
         IN  /\ tSelected' = Append(tSelected, best)
             /\ tRemaining' = tRemaining \ {best}
    /\ UNCHANGED <<tDays, tK, tPc, tOut>>
    /\ UNCHANGED nonThinVars

\* _run_selection line 126: the loop condition fails, selected is returned
ThinLoopExit ==
    /\ tPc = "loop"
    /\ ~LoopContinues(tSelected, tRemaining, tK)
    /\ tPc' = "prune"
    /\ UNCHANGED <<tDays, tK, tSelected, tRemaining, tOut>>
    /\ UNCHANGED nonThinVars

\* select_members lines 47-57: build and return pruned_days
ThinPrune ==
    /\ tPc = "prune"
    /\ tOut' = PrunedDays(tDays, tSelected)
    /\ tPc' = "done"
    /\ UNCHANGED <<tDays, tK, tSelected, tRemaining>>
    /\ UNCHANGED nonThinVars

ThinNext ==
    \/ ThinStart
    \/ ThinPick
    \/ ThinLoopExit
    \/ ThinPrune

SpecThin == ThinInit /\ [][ThinNext]_vars

(***************************************************************************)
(* Claims about thinning                                                   *)
(***************************************************************************)
\* The member ids with a record somewhere in a dataset.
\* The day/hour positions a dataset really has.
HoursIn(days) ==
    {<<d, h>> \in (1..Len(days)) \X (1..Len(HourKeys)) : h <= Len(days[d].hours)}

MembersAt(days, slot) == DOMAIN days[slot[1]].hours[slot[2]].ensemble_members

AllMembers(days) == UNION {MembersAt(days, slot) : slot \in HoursIn(days)}

\* Every hour of the dataset holds the same member ids.
Uniform(days) ==
    \A slot \in HoursIn(days) : MembersAt(days, slot) = AllMembers(days)

ThinDone == tPc = "done"

\* C8 (as stated): for any dataset containing member00 and any k >= 1, every
\* hour of the thinned dataset contains member00.
C8_EveryHourContainsControl ==
    (ThinDone /\ tK >= 1 /\ "member00" \in AllMembers(tDays))
    => \A slot \in HoursIn(tOut) : "member00" \in MembersAt(tOut, slot)

\* C8 (amended): for any dataset containing member00 and any k >= 1, member00
\* is among the selected members, and an hour of the thinned dataset holds
\* member00, with its record unchanged, exactly when the same hour of the
\* input holds it.
C8_ControlKeptWhereverPresent ==
    (ThinDone /\ tK >= 1 /\ "member00" \in AllMembers(tDays))
    => /\ Contains(tSelected, "member00")
       /\ HoursIn(tOut) = HoursIn(tDays)
       /\ \A slot \in HoursIn(tDays) :
            /\ "member00" \in MembersAt(tOut, slot)
                   <=> "member00" \in MembersAt(tDays, slot)
            /\ "member00" \in MembersAt(tDays, slot) =>
                   tOut[slot[1]].hours[slot[2]].ensemble_members["member00"]
                     = tDays[slot[1]].hours[slot[2]].ensemble_members["member00"]

\* C8 witness: a three-member dataset thinned to one member, member00 present
\* in one hour and missing from another.
C8_Witness ==
    /\ ThinDone
    /\ tK = 1
    /\ Cardinality(AllMembers(tDays)) = 3
    /\ \E s1, s2 \in HoursIn(tDays) :
          /\ "member00" \in MembersAt(tOut, s1)
          /\ "member00" \notin MembersAt(tDays, s2)

\* C9 (as stated): given more than k members, the thinned dataset contains
\* only k members and the same k ids are present in every hour of every day.
C9_SameKMembersInEveryHour ==
    (ThinDone /\ Cardinality(AllMembers(tDays)) > tK)
    => \E S \in SUBSET MemberIds :
          /\ Cardinality(S) = tK
          /\ \A slot \in HoursIn(tOut) : MembersAt(tOut, slot) = S

\* C9 (amended): given more than k members and k >= 1, exactly k member ids
\* are selected (one, the seed, when k <= 0); the thinned dataset contains
\* exactly the selected ids, and each of its hours holds those of them that
\* the input hour holds: all of them in every hour when the input is uniform.
C9_SelectedMembersKeptWherePresent ==
    (ThinDone /\ Cardinality(AllMembers(tDays)) > tK)
    => /\ Len(tSelected) = (IF tK >= 1 THEN tK ELSE 1)
       /\ Cardinality(Range(tSelected)) = Len(tSelected)
       /\ AllMembers(tOut) = Range(tSelected)
       /\ HoursIn(tOut) = HoursIn(tDays)
       /\ \A slot \in HoursIn(tDays) :
            MembersAt(tOut, slot) = MembersAt(tDays, slot) \cap Range(tSelected)
       /\ Uniform(tDays) =>
            \A slot \in HoursIn(tOut) : MembersAt(tOut, slot) = Range(tSelected)

\* C9 witness: a uniform three-member dataset over two days thinned to two
\* members, both present in every hour.
C9_Witness ==
    /\ ThinDone
    /\ tK = 2
    /\ Len(tDays) = 2
    /\ Uniform(tDays)
    /\ Cardinality(AllMembers(tDays)) = 3
    /\ \A slot \in HoursIn(tOut) : Cardinality(MembersAt(tOut, slot)) = 2

\* C10: thinning with k equal to or greater than the current member count
\* returns a dataset equal to the input (same days, hours, members, records).
C10_ThinningAtFullCountReturnsInput ==
    (ThinDone /\ tK >= Cardinality(AllMembers(tDays))) => tOut = tDays

\* C10 witness: a dataset with three members, not all present in every hour,
\* thinned with k = 3 and returned.
C10_Witness ==
    /\ ThinDone
    /\ tK = Cardinality(AllMembers(tDays))
    /\ tK = 3
    /\ ~Uniform(tDays)
    /\ tOut = tDays

(***************************************************************************)
(* util/filesystem.py and the four JSON caches                             *)
(*   country : api/alerts.py     _resolve_country_code                     *)
(*   geocode : api/geocode.py    geocode_name                              *)
(*   nwp     : api/open_meteo.py fetch_forecast                            *)
(*   impact  : api/impact.py     fetch_impact_context                      *)
(* Two worker processes look the same file up; each may be killed at any   *)
(* step.  A position names the step the worker executes next.              *)
(***************************************************************************)
CacheKinds == {"country", "geocode", "nwp", "impact"}

\* geocode_name and _resolve_country_code read inside `with file_lock(...)`;
\* fetch_forecast and fetch_impact_context call _load_cache with no lock.
LocksRead(kind) == kind \in {"country", "geocode"}

\* The write runs under the lock: the second `with file_lock(...)` of the
\* country and geocode caches, write_text_file(lock=True) for the nwp cache.
\* store_impact_context takes no lock.
LocksWrite(kind) == kind \in {"country", "geocode", "nwp"}

\* Written through write_text_file -> _atomic_write_text; the impact cache
\* is written with Path.write_text on the target itself.
AtomicWrite(kind) == kind \in {"country", "geocode", "nwp"}

\* _read_country_cache, _read_cache and open_meteo._load_cache unlink the
\* file on a parse or schema failure; impact._load_cache returns None.
DeletesOnFailure(kind) == kind \in {"country", "geocode", "nwp"}

\* The country and geocode files hold a dict of entries which is re-read
\* and extended; an nwp or impact file holds one payload and is replaced.
MergesOnWrite(kind) == kind \in {"country", "geocode"}

BadFindings == {"badjson", "badschema"}

\* Positions at which the worker is writing the cache file.
WritePcs == {"tmpCreate", "tmpWrite", "replace", "openDirect", "writeDirect"}

AbsentFile == [state |-> "absent", entries |-> {}]

ValidFile(entries) == [state |-> "valid", entries |-> entries]

\* The files a lookup can find on disk when it starts.
InitialDisks ==
    {AbsentFile, ValidFile({}), ValidFile({1}),
     [state |-> "badjson", entries |-> {}],
     [state |-> "badschema", entries |-> {}]}

\* What a read of the file finds.  open_meteo._load_cache tests staleness
\* before parsing, impact._load_cache after; a truncated file does not parse.
ReadFinding(kind, disk, stale) ==
    IF disk.state = "absent" THEN "absent"
    ELSE IF kind = "nwp" /\ stale THEN "stale"
    ELSE IF disk.state \in {"badjson", "partial"} THEN "badjson"
    ELSE IF disk.state = "badschema" THEN "badschema"
    ELSE IF kind = "impact" /\ stale THEN "stale"
    ELSE "valid"

\* `if data:` / `if cached:` / `if cached_data is not None`
IsHit(kind, w, found, cache) ==
    found = "valid" /\ (MergesOnWrite(kind) => w \in cache)

CacheInit ==
    /\ cKind \in CacheKinds
    /\ cDisk \in InitialDisks
    /\ cTmp = [w \in Workers |-> "none"]
    /\ cLock = 0
    /\ cPc = [w \in Workers |-> "idle"]
    /\ cFound = [w \in Workers |-> "none"]
    /\ cCache = [w \in Workers |-> {}]
    /\ cDeleted = [w \in Workers |-> FALSE]
    /\ cReadLocked = [w \in Workers |-> FALSE]
    /\ cResult = [w \in Workers |-> "none"]
    /\ cKilledAt = [w \in Workers |-> "none"]
    /\ FetchIdle
    /\ ThinIdle
    /\ PipelineIdle
    /\ CostIdle
    /\ SnowIdle
    /\ GeminiIdle
    /\ ImpactIdle
    /\ RefreshIdle
    /\ NamingIdle
    /\ CliIdle
    /\ SnapshotIdle
    /\ DaysIdle
    /\ LlmIdle
    /\ NwpIdle
    /\ PathsIdle

\* Entry of geocode_name / _resolve_country_code / fetch_forecast /
\* fetch_impact_context.
CacheBegin(w) ==
    /\ cPc[w] = "idle"
    /\ cPc' = [cPc EXCEPT ![w] = IF LocksRead(cKind) THEN "lock1" ELSE "read1"]
    /\ UNCHANGED <<cKind, cDisk, cTmp, cLock, cFound, cCache, cDeleted,
                   cReadLocked, cResult, cKilledAt>>
    /\ UNCHANGED nonCacheVars

AcquireLockNotExclusive(w) ==
    /\ cPc[w] \in {"lock1", "lock2"}
    /\ cLock' = w
    /\ cPc' = [cPc EXCEPT ![w] =
                  IF cPc[w] = "lock1" THEN "read1"
                  ELSE IF MergesOnWrite(cKind) THEN "read2" ELSE "tmpCreate"]
    /\ UNCHANGED <<cKind, cDisk, cTmp, cFound, cCache, cDeleted,
                   cReadLocked, cResult, cKilledAt>>
    /\ UNCHANGED nonCacheVars

\* file_lock: FileLock(<file>.lock) acquired.
AcquireLock(w) ==
    /\ cPc[w] \in {"lock1", "lock2"}
    /\ cLock = 0
    /\ cLock' = w
    /\ cPc' = [cPc EXCEPT ![w] =
                  IF cPc[w] = "lock1" THEN "read1"
                  ELSE IF MergesOnWrite(cKind) THEN "read2" ELSE "tmpCreate"]
    /\ UNCHANGED <<cKind, cDisk, cTmp, cFound, cCache, cDeleted,
                   cReadLocked, cResult, cKilledAt>>
    /\ UNCHANGED nonCacheVars

\* _read_cache / _read_country_cache / _load_cache up to the delete.
ReadCacheFile(w) ==
    /\ cPc[w] \in {"read1", "read2"}
    /\ \E stale \in BOOLEAN :
         LET found == ReadFinding(cKind, cDisk, stale)
             next  == IF found \in BadFindings /\ DeletesOnFailure(cKind)
                      THEN (IF cPc[w] = "read1" THEN "unlink1" ELSE "unlink2")
                      ELSE (IF cPc[w] = "read1" THEN "decide1" ELSE "modify")
         IN  /\ cFound' = [cFound EXCEPT ![w] = found]
             /\ cCache' = [cCache EXCEPT ![w] =
                              IF found = "valid" THEN cDisk.entries ELSE {}]
             /\ cPc' = [cPc EXCEPT ![w] = next]
    /\ cDeleted' = [cDeleted EXCEPT ![w] = FALSE]
    /\ cReadLocked' = [cReadLocked EXCEPT ![w] = (cLock = w)]
    /\ UNCHANGED <<cKind, cDisk, cTmp, cLock, cResult, cKilledAt>>
    /\ UNCHANGED nonCacheVars

\* _delete_cache_file -> safe_unlink
DeleteCacheFile(w) ==
    /\ cPc[w] \in {"unlink1", "unlink2"}
    /\ cDisk' = AbsentFile
    /\ cDeleted' = [cDeleted EXCEPT ![w] = TRUE]
    /\ cPc' = [cPc EXCEPT ![w] = IF cPc[w] = "unlink1" THEN "decide1" ELSE "modify"]
    /\ UNCHANGED <<cKind, cTmp, cLock, cFound, cCache, cReadLocked,
                   cResult, cKilledAt>>
    /\ UNCHANGED nonCacheVars

UnlockedKeepsLock(w) == cLock

\* The lock held by w is given up: end of a `with file_lock(...)` block, or
\* the death of the holding process.
Unlocked(w) == IF cLock = w THEN 0 ELSE cLock

\* The first read found the entry: return it (leaving the with block).
CacheHit(w) ==
    /\ cPc[w] = "decide1"
    /\ IsHit(cKind, w, cFound[w], cCache[w])
    /\ cResult' = [cResult EXCEPT ![w] = "hit"]
    /\ cPc' = [cPc EXCEPT ![w] = "done"]
    /\ cLock' = Unlocked(w)
    /\ cReadLocked' = [cReadLocked EXCEPT ![w] = FALSE]
    /\ UNCHANGED <<cKind, cDisk, cTmp, cFound, cCache, cDeleted, cKilledAt>>
    /\ UNCHANGED nonCacheVars

\* The first read found nothing usable: leave the with block and go to the
\* network.
CacheMiss(w) ==
    /\ cPc[w] = "decide1"
    /\ ~IsHit(cKind, w, cFound[w], cCache[w])
    /\ cResult' = [cResult EXCEPT ![w] = "miss"]
    /\ cPc' = [cPc EXCEPT ![w] = "lookup"]
    /\ cLock' = Unlocked(w)
    /\ cReadLocked' = [cReadLocked EXCEPT ![w] = FALSE]
    /\ UNCHANGED <<cKind, cDisk, cTmp, cFound, cCache, cDeleted, cKilledAt>>
    /\ UNCHANGED nonCacheVars

\* The remote lookup (geocoder, reverse geocoder, Open-Meteo, context LLM)
\* produced a value to cache.
LookupSucceeds(w) ==
    /\ cPc[w] = "lookup"
    /\ cPc' = [cPc EXCEPT ![w] = IF LocksWrite(cKind) THEN "lock2" ELSE "openDirect"]
    /\ cCache' = [cCache EXCEPT ![w] = IF MergesOnWrite(cKind) THEN cCache[w] ELSE {w}]
    /\ UNCHANGED <<cKind, cDisk, cTmp, cLock, cFound, cDeleted, cReadLocked,
                   cResult, cKilledAt>>
    /\ UNCHANGED nonCacheVars

\* The remote lookup produced nothing: nothing is written.
LookupFails(w) ==
    /\ cPc[w] = "lookup"
    /\ cPc' = [cPc EXCEPT ![w] = "done"]
    /\ UNCHANGED <<cKind, cDisk, cTmp, cLock, cFound, cCache, cDeleted,
                   cReadLocked, cResult, cKilledAt>>
    /\ UNCHANGED nonCacheVars

\* cache[key] = value, on the dict just re-read under the lock.
ModifyCache(w) ==
    /\ cPc[w] = "modify"
    /\ cCache' = [cCache EXCEPT ![w] = cCache[w] \cup {w}]
    /\ cPc' = [cPc EXCEPT ![w] = "tmpCreate"]
    /\ UNCHANGED <<cKind, cDisk, cTmp, cLock, cFound, cDeleted, cReadLocked,
                   cResult, cKilledAt>>
    /\ UNCHANGED nonCacheVars

\* _atomic_write_text: tempfile.mkstemp in the target's directory.
TmpCreate(w) ==
    /\ cPc[w] = "tmpCreate"
    /\ cTmp' = [cTmp EXCEPT ![w] = "partial"]
    /\ cPc' = [cPc EXCEPT ![w] = "tmpWrite"]
    /\ UNCHANGED <<cKind, cDisk, cLock, cFound, cCache, cDeleted, cReadLocked,
                   cResult, cKilledAt>>
    /\ UNCHANGED nonCacheVars

\* _atomic_write_text: handle.write, flush, os.fsync.
TmpWrite(w) ==
    /\ cPc[w] = "tmpWrite"
    /\ cTmp' = [cTmp EXCEPT ![w] = "full"]
    /\ cPc' = [cPc EXCEPT ![w] = "replace"]
    /\ UNCHANGED <<cKind, cDisk, cLock, cFound, cCache, cDeleted, cReadLocked,
                   cResult, cKilledAt>>
    /\ UNCHANGED nonCacheVars

\* _atomic_write_text: os.replace(tmp_path, target).
ReplaceFile(w) ==
    /\ cPc[w] = "replace"
    /\ cDisk' = ValidFile(cCache[w])
    /\ cTmp' = [cTmp EXCEPT ![w] = "none"]
    /\ cPc' = [cPc EXCEPT ![w] = "unlock2"]
    /\ UNCHANGED <<cKind, cLock, cFound, cCache, cDeleted, cReadLocked,
                   cResult, cKilledAt>>
    /\ UNCHANGED nonCacheVars

\* End of the `with file_lock(...)` block around the write.
ReleaseLock(w) ==
    /\ cPc[w] = "unlock2"
    /\ cLock' = Unlocked(w)
    /\ cReadLocked' = [cReadLocked EXCEPT ![w] = FALSE]
    /\ cPc' = [cPc EXCEPT ![w] = "done"]
    /\ UNCHANGED <<cKind, cDisk, cTmp, cFound, cCache, cDeleted, cResult, cKilledAt>>
    /\ UNCHANGED nonCacheVars

\* store_impact_context: Path.write_text opens the target for writing,
\* which truncates it.
OpenTruncate(w) ==
    /\ cPc[w] = "openDirect"
    /\ cDisk' = [state |-> "partial", entries |-> {}]
    /\ cPc' = [cPc EXCEPT ![w] = "writeDirect"]
    /\ UNCHANGED <<cKind, cTmp, cLock, cFound, cCache, cDeleted, cReadLocked,
                   cResult, cKilledAt>>
    /\ UNCHANGED nonCacheVars

\* store_impact_context: the text is written and the file closed.
WriteDirect(w) ==
    /\ cPc[w] = "writeDirect"
    /\ cDisk' = ValidFile(cCache[w])
    /\ cPc' = [cPc EXCEPT ![w] = "done"]
    /\ UNCHANGED <<cKind, cTmp, cLock, cFound, cCache, cDeleted, cReadLocked,
                   cResult, cKilledAt>>
    /\ UNCHANGED nonCacheVars

\* _atomic_write_text raises OSError (mkstemp, write, fsync or replace): its
\* finally block unlinks the temporary file, _write_cache /
\* _write_country_cache / open_meteo._write_cache catch the error, and the
\* `with file_lock(...)` block around the write is left.
WriteFails(w) ==
    /\ cPc[w] \in {"tmpCreate", "tmpWrite", "replace"}
    /\ cTmp' = [cTmp EXCEPT ![w] = "none"]
    /\ cLock' = Unlocked(w)
    /\ cReadLocked' = [cReadLocked EXCEPT ![w] = FALSE]
    /\ cPc' = [cPc EXCEPT ![w] = "failed"]
    /\ UNCHANGED <<cKind, cDisk, cFound, cCache, cDeleted, cResult, cKilledAt>>
    /\ UNCHANGED nonCacheVars

\* The read raises an exception the reader does not catch (read_text on a
\* file that is not UTF-8 raises UnicodeDecodeError, which is neither
\* JSONDecodeError nor OSError): it leaves the `with file_lock(...)` block,
\* if the read is inside one, and the function.
ReadRaises(w) ==
    /\ cPc[w] \in {"read1", "read2"}
    /\ cDisk.state = "badjson"
    /\ cLock' = Unlocked(w)
    /\ cReadLocked' = [cReadLocked EXCEPT ![w] = FALSE]
    /\ cPc' = [cPc EXCEPT ![w] = "raised"]
    /\ UNCHANGED <<cKind, cDisk, cTmp, cFound, cCache, cDeleted, cResult,
                   cKilledAt>>
    /\ UNCHANGED nonCacheVars

\* The worker process is killed: no handler or finally block runs, the
\* operating system drops its lock, its files stay as they are.
KillWorker(w) ==
    /\ cPc[w] \notin {"off", "idle", "done", "failed", "raised", "killed"}
    /\ cKilledAt' = [cKilledAt EXCEPT ![w] = cPc[w]]
    /\ cPc' = [cPc EXCEPT ![w] = "killed"]
    /\ cLock' = Unlocked(w)
    /\ cReadLocked' = [cReadLocked EXCEPT ![w] = FALSE]
    /\ UNCHANGED <<cKind, cDisk, cTmp, cFound, cCache, cDeleted, cResult>>
    /\ UNCHANGED nonCacheVars

CacheNext ==
    \E w \in Workers :
        \/ CacheBegin(w)
        \/ AcquireLock(w)
        \/ ReadCacheFile(w)
        \/ DeleteCacheFile(w)
        \/ CacheHit(w)
        \/ CacheMiss(w)
        \/ LookupSucceeds(w)
        \/ LookupFails(w)
        \/ ModifyCache(w)
        \/ TmpCreate(w)
        \/ TmpWrite(w)
        \/ ReplaceFile(w)
        \/ ReleaseLock(w)
        \/ OpenTruncate(w)
        \/ WriteDirect(w)
        \/ WriteFails(w)
        \/ ReadRaises(w)
        \/ KillWorker(w)

SpecCache == CacheInit /\ [][CacheNext]_vars

(***************************************************************************)
(* Claims about the cache files                                            *)
(***************************************************************************)
\* No worker is in the middle of writing the cache file.
NoWriterActive == \A v \in Workers : cPc[v] \notin WritePcs

\* For the caches in `kinds`: once a writer has been killed during its
\* write and nobody else is writing, the cache file is not a partial file.
KilledWriterLeavesNoPartialFile(kinds) ==
    (/\ cKind \in kinds
     /\ \E w \in Workers : cPc[w] = "killed" /\ cKilledAt[w] \in WritePcs
     /\ NoWriterActive)
    => cDisk.state # "partial"

\* For the caches in `kinds`: a worker that is writing the file holds its
\* lock and has held it since its last read of the file.
WriteHoldsLockSinceRead(kinds) ==
    cKind \in kinds =>
        \A w \in Workers :
            cPc[w] \in WritePcs => (cLock = w /\ cReadLocked[w])

\* For the caches in `kinds`: a read that found a parse or schema failure
\* has unlinked the file and returned nothing (the worker's dict holds at
\* most the entry it adds itself) and the lookup is not a hit.
FailedReadDeletesFile(kinds) ==
    cKind \in kinds =>
        \A w \in Workers :
            (cFound[w] \in BadFindings /\ cPc[w] \notin {"unlink1", "unlink2", "killed"})
            => (cDeleted[w] /\ cCache[w] \subseteq {w} /\ cResult[w] # "hit")

\* C2 (as stated): a cache writer killed between writing the temporary file
\* and renaming it never leaves a partially written cache file behind, for
\* every cache file the system writes (country, geocode, nwp, impact).
C2_KilledWriterNeverLeavesPartialFile ==
    KilledWriterLeavesNoPartialFile(CacheKinds)

\* C3 (as stated): every read-modify-write of a shared cache file (country,
\* geocode, nwp, impact) holds the file's lock from the read through the
\* write.
C3_ReadModifyWriteHoldsLockThroughout ==
    WriteHoldsLockSinceRead(CacheKinds)

\* C7 (as stated): a cache read that finds a parse or schema failure deletes
\* the file and treats the read as a miss, for the nwp, geocode, country and
\* impact caches.
C7_FailedReadDeletesFileAndMisses ==
    FailedReadDeletesFile(CacheKinds)

(***************************************************************************)
(* pipeline/executor.py : execute_pipeline                                 *)
(* Locations are processed first, then areas (mode "area"); an area        *)
(* collects a payload for each of its member locations before its own      *)
(* impact/LLM/render stages.  A stage ends "ok", with a failure its code   *)
(* turns into a value ("fail"), or with an exception nothing on the way    *)
(* up to execute_pipeline catches ("raise").                               *)
(***************************************************************************)
MaxLocations == 2

MaxAreaMembers == 2

\* The configurations explored: up to MaxLocations locations, no area or
\* one area with up to MaxAreaMembers member locations; `configured` holds
\* the locations of config.locations that the area names as members (the
\* other members are names that are not configured as locations).
PipelineConfigs ==
    UNION {{[locs |-> n, areas |-> a, configured |-> c] :
               c \in {x \in SUBSET (1..n) :
                         IF a = <<>> THEN x = {} ELSE Cardinality(x) <= a[1]}} :
           n \in 0..MaxLocations,
           a \in {<<>>} \cup {<<m>> : m \in 1..MaxAreaMembers}}

NumEntities == pConfig.locs + Len(pConfig.areas)

IsArea(e) == e > pConfig.locs

AreaMembers(e) == pConfig.areas[e - pConfig.locs]

\* How each stage can end.
\*   geocode   : None on RequestException / no result; resp.json() and
\*               entry["latitude"] sit in the else branch, outside the try
\*   alerts    : the fetchers return [] on request and JSON errors
\*   nwp       : RuntimeError is caught by _collect_location_payload
\*   dataset   : an empty dataset is skipped; _write_dataset_cache ->
\*               write_text_file is called outside any try
\*   impact    : provider errors give an empty context; _load_cache catches
\*               only JSONDecodeError around path.read_text
\*   llm       : except Exception -> dataset summary fallback
\*   translate : except Exception -> None
\*   render    : ensure_directory / write_text_file outside any try
StageOutcomes(stage) ==
    CASE stage = "geocode"   -> {"ok", "fail", "raise"}
      [] stage = "alerts"    -> {"ok", "fail"}
      [] stage = "nwp"       -> {"ok", "fail"}
      [] stage = "dataset"   -> {"ok", "fail", "raise"}
      [] stage = "impact"    -> {"ok", "fail", "raise"}
      [] stage = "llm"       -> {"ok", "fail"}
      [] stage = "translate" -> {"ok", "fail"}
      [] stage = "render"    -> {"ok", "raise"}

PipelineInit ==
    /\ pConfig \in PipelineConfigs
    /\ pPc = "start"
    /\ pEnt = 0
    /\ pMem = 0
    /\ pPayloads = 0
    /\ pDone = [e \in 1..NumEntities |-> "pending"]
    /\ pFailedIn = {}
    /\ pCostLogged = FALSE
    /\ FetchIdle
    /\ ThinIdle
    /\ CacheIdle
    /\ CostIdle
    /\ SnowIdle
    /\ GeminiIdle
    /\ ImpactIdle
    /\ RefreshIdle
    /\ NamingIdle
    /\ CliIdle
    /\ SnapshotIdle
    /\ DaysIdle
    /\ LlmIdle
    /\ NwpIdle
    /\ PathsIdle

\* The loops of execute_pipeline move to entity e, or past the last one to
\* _log_cost_summary.
EnterEntity(e) ==
    /\ pEnt' = e
    /\ pPayloads' = 0
    /\ IF e > NumEntities
       THEN pPc' = "summary" /\ pMem' = 0
       ELSE pPc' = "geocode" /\ pMem' = (IF IsArea(e) THEN 1 ELSE 0)

\* The current entity ends with the given status.
EntityEnds(status) ==
    /\ pDone' = [pDone EXCEPT ![pEnt] = status]
    /\ EnterEntity(pEnt + 1)

\* _collect_location_payload returns: a payload (got) or None.
\* For a location, None ends the entity; for an area the payload is
\* appended, the next member follows, and an area with no payload is skipped.
PayloadReturned(got) ==
    IF ~IsArea(pEnt)
    THEN IF got
         THEN pPc' = "impact" /\ UNCHANGED <<pEnt, pMem, pPayloads, pDone>>
         ELSE EntityEnds("skipped")
    ELSE LET n == pPayloads + (IF got THEN 1 ELSE 0)
         IN  IF pMem < AreaMembers(pEnt)
             THEN /\ pPc' = "geocode"
                  /\ pMem' = pMem + 1
                  /\ pPayloads' = n
                  /\ UNCHANGED <<pEnt, pDone>>
             ELSE IF n = 0
                  THEN EntityEnds("skipped")
                  ELSE /\ pPc' = "impact"
                       /\ pPayloads' = n
                       /\ UNCHANGED <<pEnt, pMem, pDone>>

\* An exception leaves execute_pipeline: the run is over.
RunAborts ==
    /\ pPc' = "aborted"
    /\ UNCHANGED <<pEnt, pMem, pPayloads, pDone>>

\* The stage goes on to the next stage of the same entity.
GoTo(stage) ==
    /\ pPc' = stage
    /\ UNCHANGED <<pEnt, pMem, pPayloads, pDone>>

Noted(outcome) ==
    pFailedIn' = IF outcome = "ok" THEN pFailedIn ELSE pFailedIn \cup {pEnt}

\* A plausible slip: the areas are processed before the locations.
StartRunAtAreas ==
    /\ pPc = "start"
    /\ IF NumEntities = 0
       THEN pPc' = "finished" /\ UNCHANGED <<pEnt, pMem, pPayloads>>
       ELSE EnterEntity(pConfig.locs + 1)
    /\ UNCHANGED <<pConfig, pDone, pFailedIn, pCostLogged>>
    /\ UNCHANGED nonPipelineVars

\* execute_pipeline entry: nothing configured returns at once; otherwise
\* the cost tracker is reset and the first entity is entered.
StartRun ==
    /\ pPc = "start"
    /\ IF NumEntities = 0
       THEN pPc' = "finished" /\ UNCHANGED <<pEnt, pMem, pPayloads>>
       ELSE EnterEntity(1)
    /\ UNCHANGED <<pConfig, pDone, pFailedIn, pCostLogged>>
    /\ UNCHANGED nonPipelineVars

\* geocode_name(name)
Geocode ==
    /\ pPc = "geocode"
    /\ \E outcome \in StageOutcomes("geocode") :
         /\ Noted(outcome)
         /\ CASE outcome = "ok"    -> GoTo("alerts")
              [] outcome = "fail"  -> PayloadReturned(FALSE)
              [] outcome = "raise" -> RunAborts
    /\ UNCHANGED <<pConfig, pCostLogged>>
    /\ UNCHANGED nonPipelineVars

\* fetch_alerts(...)
FetchAlerts ==
    /\ pPc = "alerts"
    /\ \E outcome \in StageOutcomes("alerts") :
         /\ Noted(outcome)
         /\ GoTo("nwp")
    /\ UNCHANGED <<pConfig, pCostLogged>>
    /\ UNCHANGED nonPipelineVars

\* fetch_forecast(...) inside try / except RuntimeError
FetchForecast ==
    /\ pPc = "nwp"
    /\ \E outcome \in StageOutcomes("nwp") :
         /\ Noted(outcome)
         /\ CASE outcome = "ok"   -> GoTo("dataset")
              [] outcome = "fail" -> PayloadReturned(FALSE)
    /\ UNCHANGED <<pConfig, pCostLogged>>
    /\ UNCHANGED nonPipelineVars

\* build_processed_days, _limit_days, _write_dataset_cache,
\* format_location_dataset: the end of _collect_location_payload.
BuildDataset ==
    /\ pPc = "dataset"
    /\ \E outcome \in StageOutcomes("dataset") :
         /\ Noted(outcome)
         /\ CASE outcome = "ok"    -> PayloadReturned(TRUE)
              [] outcome = "fail"  -> PayloadReturned(FALSE)
              [] outcome = "raise" -> RunAborts
    /\ UNCHANGED <<pConfig, pCostLogged>>
    /\ UNCHANGED nonPipelineVars

\* fetch_impact_context(...)
FetchImpactContext ==
    /\ pPc = "impact"
    /\ \E outcome \in StageOutcomes("impact") :
         /\ Noted(outcome)
         /\ CASE outcome = "ok"    -> GoTo("llm")
              [] outcome = "fail"  -> GoTo("llm")
              [] outcome = "raise" -> RunAborts
    /\ UNCHANGED <<pConfig, pCostLogged>>
    /\ UNCHANGED nonPipelineVars

\* generate_forecast_text inside try / except Exception, then the
\* _dataset_summary fallback.
GenerateForecast ==
    /\ pPc = "llm"
    /\ \E outcome \in StageOutcomes("llm") :
         /\ Noted(outcome)
         /\ GoTo("translate")
    /\ UNCHANGED <<pConfig, pCostLogged>>
    /\ UNCHANGED nonPipelineVars

\* _maybe_translate(...)
Translate ==
    /\ pPc = "translate"
    /\ \E outcome \in StageOutcomes("translate") :
         /\ Noted(outcome)
         /\ GoTo("render")
    /\ UNCHANGED <<pConfig, pCostLogged>>
    /\ UNCHANGED nonPipelineVars

\* render_forecast_page(...), the last statement of _process_location and
\* _process_area.
Render ==
    /\ pPc = "render"
    /\ \E outcome \in StageOutcomes("render") :
         /\ Noted(outcome)
         /\ CASE outcome = "ok"    -> EntityEnds("rendered")
              [] outcome = "raise" -> RunAborts
    /\ UNCHANGED <<pConfig, pCostLogged>>
    /\ UNCHANGED nonPipelineVars

\* _log_cost_summary(), the last statement of execute_pipeline.
LogCostSummary ==
    /\ pPc = "summary"
    /\ pCostLogged' = TRUE
    /\ pPc' = "finished"
    /\ UNCHANGED <<pConfig, pEnt, pMem, pPayloads, pDone, pFailedIn>>
    /\ UNCHANGED nonPipelineVars

PipelineNext ==
    \/ StartRun
    \/ Geocode
    \/ FetchAlerts
    \/ FetchForecast
    \/ BuildDataset
    \/ FetchImpactContext
    \/ GenerateForecast
    \/ Translate
    \/ Render
    \/ LogCostSummary

SpecPipeline == PipelineInit /\ [][PipelineNext]_vars

(***************************************************************************)
(* Claims about the executor                                               *)
(***************************************************************************)
RunOver == pPc \in {"finished", "aborted"}

\* C1 (as stated): a failure while processing any one entity (geocoding,
\* alerts, NWP fetch, impact context, LLM, translation, rendering) never
\* aborts the run: when the run is over, it has not been aborted and every
\* entity has been processed (rendered, or skipped for lack of data).
C1_EntityFailureNeverAbortsRun ==
    (RunOver /\ pFailedIn # {})
    => (pPc = "finished" /\ \A e \in 1..NumEntities : pDone[e] # "pending")

(***************************************************************************)
(* Claims about the determinism of thinning                                *)
(***************************************************************************)
RECURSIVE SelectionsFrom(_, _, _, _)
\* Every list the while loop of _run_selection can return from the given
\* point, over all orders in which `remaining` can be iterated.
SelectionsFrom(norm, selected, remaining, k) ==
    IF ~LoopContinues(selected, remaining, k) THEN {selected}
    ELSE UNION {SelectionsFrom(norm, Append(selected, b), remaining \ {b}, k) :
                  b \in {BestMember(norm, o, selected, "", 0) :
                           o \in IterationOrders(remaining)}}

\* Every list _run_selection can return for a dataset and a target count.
RunSelections(days, k) ==
    LET flat == FlattenMembers(days)
    IN  IF Len(flat.keys) <= k THEN {flat.keys}
        ELSE SelectionsFrom(Normalized(flat), <<SeedMember(flat.keys)>>,
                            Range(flat.keys) \ {SeedMember(flat.keys)}, k)

\* C11 (as stated): the set of members selected by thinning is a function
\* of the input dataset and k alone: any run on the same dataset and k
\* selects the same set of members as this run did.
C11_SelectionIsFunctionOfInput ==
    tPc = "done" =>
        \A s \in RunSelections(tDays, tK) : Range(s) = Range(tSelected)

(***************************************************************************)
(* pipeline/executor.py : _record_cost on the module-level _COST_TRACKER.  *)
(* Two threads of one process each make one call; a thread can be          *)
(* switched out between any two bytecodes, so each `+=` on an attribute    *)
(* is a load followed by a store.                                          *)
(***************************************************************************)
CostThreads == {1, 2}

CostLabels == {"Location: a", "Location: b"}

\* Largest amount (in cents) passed for one field of one call.
MaxCents == 1

\* The three `+=` statements of _record_cost, in order.
CostFields == <<"context", "forecast", "translation">>

FieldOf(rec, i) ==
    CASE i = 1 -> rec.context
      [] i = 2 -> rec.forecast
      [] i = 3 -> rec.translation

WithField(rec, i, v) ==
    CASE i = 1 -> [rec EXCEPT !.context = v]
      [] i = 2 -> [rec EXCEPT !.forecast = v]
      [] i = 3 -> [rec EXCEPT !.translation = v]

CostInit ==
    /\ kTracker = [l \in CostLabels |->
                     [present |-> FALSE, context |-> 0, forecast |-> 0, translation |-> 0]]
    /\ kPc = [t \in CostThreads |-> [step |-> "idle", field |-> 0]]
    /\ kArgs \in [CostThreads ->
                    [label : CostLabels, context : 0..MaxCents,
                     forecast : 0..MaxCents, translation : 0..MaxCents]]
    /\ kLoaded = [t \in CostThreads |-> 0]
    /\ FetchIdle
    /\ ThinIdle
    /\ CacheIdle
    /\ PipelineIdle
    /\ SnowIdle
    /\ GeminiIdle
    /\ ImpactIdle
    /\ RefreshIdle
    /\ NamingIdle
    /\ CliIdle
    /\ SnapshotIdle
    /\ DaysIdle
    /\ LlmIdle
    /\ NwpIdle
    /\ PathsIdle

\* The call is made: label = f"{kind}: {name}"
RecordCostBegin(t) ==
    /\ kPc[t].step = "idle"
    /\ kPc' = [kPc EXCEPT ![t] = [step |-> "setdefault", field |-> 0]]
    /\ UNCHANGED <<kTracker, kArgs, kLoaded>>
    /\ UNCHANGED nonCostVars

\* entry = _COST_TRACKER.setdefault(label, CostBreakdown())
SetDefault(t) ==
    /\ kPc[t].step = "setdefault"
    /\ kTracker' = [kTracker EXCEPT ![kArgs[t].label].present = TRUE]
    /\ kPc' = [kPc EXCEPT ![t] = [step |-> "load", field |-> 1]]
    /\ UNCHANGED <<kArgs, kLoaded>>
    /\ UNCHANGED nonCostVars

\* entry.<field>_cents += amount : the attribute is read
LoadField(t) ==
    /\ kPc[t].step = "load"
    /\ kLoaded' = [kLoaded EXCEPT ![t] = FieldOf(kTracker[kArgs[t].label], kPc[t].field)]
    /\ kPc' = [kPc EXCEPT ![t].step = "store"]
    /\ UNCHANGED <<kTracker, kArgs>>
    /\ UNCHANGED nonCostVars

\* entry.<field>_cents += amount : the sum is written back
StoreField(t) ==
    /\ kPc[t].step = "store"
    /\ kTracker' = [kTracker EXCEPT ![kArgs[t].label] =
                       WithField(@, kPc[t].field,
                                 kLoaded[t] + FieldOf(kArgs[t], kPc[t].field))]
    /\ kPc' = [kPc EXCEPT ![t] =
                  IF kPc[t].field < Len(CostFields)
                  THEN [step |-> "load", field |-> kPc[t].field + 1]
                  ELSE [step |-> "done", field |-> 0]]
    /\ UNCHANGED <<kArgs, kLoaded>>
    /\ UNCHANGED nonCostVars

CostNext ==
    \E t \in CostThreads :
        \/ RecordCostBegin(t)
        \/ SetDefault(t)
        \/ LoadField(t)
        \/ StoreField(t)

SpecCost == CostInit /\ [][CostNext]_vars

(***************************************************************************)
(* Claims about the cost accumulator                                       *)
(***************************************************************************)
\* The amount recorded for field i of label l by the calls that returned.
RecordedFor(l, i) ==
    LET amount(t) == IF kPc[t].step = "done" /\ kArgs[t].label = l
                     THEN FieldOf(kArgs[t], i) ELSE 0
    IN  amount(1) + amount(2)

\* C12 (as stated): concurrent recordings never lose an update: once all
\* recordings have returned, the totals stored for each label equal the
\* sum of all amounts recorded for that label.
C12_NoRecordedCostIsLost ==
    (\A t \in CostThreads : kPc[t].step = "done")
    => \A l \in CostLabels : \A i \in 1..Len(CostFields) :
           FieldOf(kTracker[l], i) = RecordedFor(l, i)

(***************************************************************************)
(* pipeline/executor.py : the snow-profile block of                        *)
(* _collect_location_payload (lines 675-709) and the module-level set      *)
(* _SNOW_PROFILE_UNSUPPORTED_MODELS.  Each thread processes its locations  *)
(* one after the other; two threads model locations processed in parallel. *)
(* Every location here has snow levels enabled, a deterministic model and  *)
(* no freezing level in its forecast, so it reaches line 677.              *)
(***************************************************************************)
SnowThreads == {1, 2}

SnowModels == {"ecmwf", "gfs"}

\* Locations each thread processes.
MaxSnowLocations == 2

SnowInit ==
    /\ sUnsupported = {}
    /\ sPc = [t \in SnowThreads |-> "idle"]
    /\ sModel = [t \in SnowThreads |-> "none"]
    /\ sLeft \in [SnowThreads -> 0..MaxSnowLocations]
    /\ sNullReturned = {}
    /\ sLateFetch = {}
    /\ FetchIdle
    /\ ThinIdle
    /\ CacheIdle
    /\ PipelineIdle
    /\ CostIdle
    /\ GeminiIdle
    /\ ImpactIdle
    /\ RefreshIdle
    /\ NamingIdle
    /\ CliIdle
    /\ SnapshotIdle
    /\ DaysIdle
    /\ LlmIdle
    /\ NwpIdle
    /\ PathsIdle

\* The thread's next location reaches the snow-profile block.
SnowBegin(t) ==
    /\ sPc[t] = "idle"
    /\ sLeft[t] > 0
    /\ \E m \in SnowModels : sModel' = [sModel EXCEPT ![t] = m]
    /\ sLeft' = [sLeft EXCEPT ![t] = sLeft[t] - 1]
    /\ sPc' = [sPc EXCEPT ![t] = "check"]
    /\ UNCHANGED <<sUnsupported, sNullReturned, sLateFetch>>
    /\ UNCHANGED nonSnowVars

\* if resolved_model.model_id in _SNOW_PROFILE_UNSUPPORTED_MODELS: skip
\* elif _needs_snow_profile_request(raw_forecast): go on to fetch
CheckUnsupported(t) ==
    /\ sPc[t] = "check"
    /\ \E needed \in BOOLEAN :
         sPc' = [sPc EXCEPT ![t] =
                    IF sModel[t] \in sUnsupported \/ ~needed THEN "idle" ELSE "fetch"]
    /\ UNCHANGED <<sUnsupported, sModel, sLeft, sNullReturned, sLateFetch>>
    /\ UNCHANGED nonSnowVars

\* profile = fetch_forecast(ForecastRequest(...,
\* hourly_fields=HOURLY_FIELDS_SNOW_PROFILE)) is issued.
IssueProfileFetch(t) ==
    /\ sPc[t] = "fetch"
    /\ sLateFetch' = IF sModel[t] \in sNullReturned
                     THEN sLateFetch \cup {sModel[t]} ELSE sLateFetch
    /\ sPc' = [sPc EXCEPT ![t] = "await"]
    /\ UNCHANGED <<sUnsupported, sModel, sLeft, sNullReturned>>
    /\ UNCHANGED nonSnowVars

\* The fetch returns a usable profile (merged), only nulls, or raises
\* (except Exception: continue without it).
ProfileFetchReturns(t) ==
    /\ sPc[t] = "await"
    /\ \E outcome \in {"profile", "nulls", "error"} :
         /\ sPc' = [sPc EXCEPT ![t] = IF outcome = "nulls" THEN "add" ELSE "idle"]
         /\ sNullReturned' = IF outcome = "nulls"
                             THEN sNullReturned \cup {sModel[t]} ELSE sNullReturned
    /\ UNCHANGED <<sUnsupported, sModel, sLeft, sLateFetch>>
    /\ UNCHANGED nonSnowVars

\* _SNOW_PROFILE_UNSUPPORTED_MODELS.add(resolved_model.model_id)
MarkUnsupported(t) ==
    /\ sPc[t] = "add"
    /\ sUnsupported' = sUnsupported \cup {sModel[t]}
    /\ sPc' = [sPc EXCEPT ![t] = "idle"]
    /\ UNCHANGED <<sModel, sLeft, sNullReturned, sLateFetch>>
    /\ UNCHANGED nonSnowVars

SnowNext ==
    \E t \in SnowThreads :
        \/ SnowBegin(t)
        \/ CheckUnsupported(t)
        \/ IssueProfileFetch(t)
        \/ ProfileFetchReturns(t)
        \/ MarkUnsupported(t)

SpecSnow == SnowInit /\ [][SnowNext]_vars

(***************************************************************************)
(* Claims about the snow-profile memory                                    *)
(***************************************************************************)
\* Positions between the membership test and the update of the set.
SnowCritical == {"fetch", "await", "add"}

\* C13 (as stated): once a profile fetch for a model has returned only
\* nulls, no later profile fetch is issued for that model, also with
\* locations processed in parallel; and the set is read and updated under
\* a mutex, so no two threads are between the test and the update for the
\* same model at once.
C13_NoProfileFetchAfterNullReturn ==
    /\ sLateFetch = {}
    /\ \A t, u \in SnowThreads :
          (t # u /\ sPc[t] \in SnowCritical /\ sPc[u] \in SnowCritical)
          => sModel[t] # sModel[u]

(***************************************************************************)
(* llm/client.py : _call_gemini, _call_gemini_once, _maybe_continue_gemini *)
(* util/env.py   : force_gemini_api_key / temporary_environ                *)
(***************************************************************************)
\* range(2) in _maybe_continue_gemini
MaxContinuations == 2

\* The names _gemini_finished_by_limit accepts, after upper().
LimitReasons == {"MAX_TOKENS", "MAX_TOKEN", "LENGTH", "TOKEN_LIMIT"}

\* Finish reasons a response can carry; "NONE" is a response without
\* candidates or without a finish reason.
FinishReasons ==
    {"STOP", "SAFETY", "NONE", "MAX_TOKENS", "max_tokens", "MAX_TOKEN",
     "LENGTH", "TOKEN_LIMIT"}

\* reason_name.upper()
Upper(reason) == IF reason = "max_tokens" THEN "MAX_TOKENS" ELSE reason

\* A plausible slip: every response is taken as cut off.
GeminiFinishedByLimitAlways(reason) == reason = reason

\* _gemini_finished_by_limit(response)
GeminiFinishedByLimit(reason) ==
    reason # "NONE" /\ Upper(reason) \in LimitReasons

\* temporary_environ body: GOOGLE_API_KEY popped, GEMINI_API_KEY set to
\* settings.api_key.
ForcedEnv == [gemini |-> "key", google |-> "unset"]

GeminiInit ==
    /\ gEnv \in [gemini : {"key"}, google : {"unset", "set"}]
    /\ gPrev = [gemini |-> "key", google |-> "unset"]
    /\ gPc = "start"
    /\ gRound = 0
    /\ gReason = ""
    /\ gLog = <<>>
    /\ FetchIdle
    /\ ThinIdle
    /\ CacheIdle
    /\ PipelineIdle
    /\ CostIdle
    /\ SnowIdle
    /\ ImpactIdle
    /\ RefreshIdle
    /\ NamingIdle
    /\ CliIdle
    /\ SnapshotIdle
    /\ DaysIdle
    /\ LlmIdle
    /\ NwpIdle
    /\ PathsIdle

\* One client.models.generate_content request is made.
Requested(kind, retry) ==
    gLog' = Append(gLog, [kind |-> kind, retry |-> retry, env |-> gEnv,
                          after |-> gReason])

\* with force_gemini_api_key(settings.api_key): the environment is saved
\* and forced.
GeminiEnter ==
    /\ gPc = "start"
    /\ gPrev' = gEnv
    /\ gEnv' = ForcedEnv
    /\ gPc' = "initial"
    /\ UNCHANGED <<gRound, gReason, gLog>>
    /\ UNCHANGED nonGeminiVars

\* _call_gemini_once for the prompt: the request answers, raises an error
\* the fallback retries (AttributeError, RuntimeError, TypeError,
\* ValueError), or raises another error, which unwinds the with block
\* (the finally restores the environment) into RuntimeError.
InitialRequest ==
    /\ gPc \in {"initial", "initial_retry"}
    /\ Requested("initial", gPc = "initial_retry")
    /\ \/ \E reason \in FinishReasons, text \in BOOLEAN :
            /\ gReason' = reason
            /\ gPc' = IF text THEN "exit" ELSE "exit_empty"
            /\ UNCHANGED gEnv
       \/ /\ gPc = "initial"
          /\ gPc' = "initial_retry"
          /\ UNCHANGED <<gEnv, gReason>>
       \/ /\ gPc' = "raised"
          /\ gEnv' = gPrev
          /\ UNCHANGED gReason
    /\ UNCHANGED <<gPrev, gRound>>
    /\ UNCHANGED nonGeminiVars

\* The with block is left: temporary_environ's finally restores the saved
\* values.  A response without text raises RuntimeError; otherwise
\* _maybe_continue_gemini is entered and returns at once unless the
\* response was cut off.
GeminiExit ==
    /\ gPc \in {"exit", "exit_empty"}
    /\ gEnv' = gPrev
    /\ gPc' = IF gPc = "exit_empty" THEN "raised"
              ELSE IF GeminiFinishedByLimit(gReason) THEN "continue"
              ELSE "done"
    /\ UNCHANGED <<gPrev, gRound, gReason, gLog>>
    /\ UNCHANGED nonGeminiVars

\* One pass of `for _ in range(2)`: _call_gemini_once with the continuation
\* prompt.  An empty answer or one that was not cut off leaves the loop.
ContinuationRequest ==
    /\ gPc \in {"continue", "continue_retry"}
    /\ gPc = "continue" => gRound < MaxContinuations
    /\ Requested("continuation", gPc = "continue_retry")
    /\ gRound' = IF gPc = "continue" THEN gRound + 1 ELSE gRound
    /\ \/ \E reason \in FinishReasons, text \in BOOLEAN :
            /\ gReason' = reason
            /\ gPc' = IF text /\ GeminiFinishedByLimit(reason)
                         /\ gRound' < MaxContinuations
                      THEN "continue" ELSE "done"
       \/ /\ gPc = "continue"
          /\ gPc' = "continue_retry"
          /\ UNCHANGED gReason
       \/ /\ gPc' = "raised"
          /\ UNCHANGED gReason
    /\ UNCHANGED <<gEnv, gPrev>>
    /\ UNCHANGED nonGeminiVars

GeminiNext ==
    \/ GeminiEnter
    \/ InitialRequest
    \/ GeminiExit
    \/ ContinuationRequest

SpecGemini == GeminiInit /\ [][GeminiNext]_vars

\* The requests of the log made with the continuation prompt.
ContinuationRequests == {i \in DOMAIN gLog : gLog[i].kind = "continuation"}

\* The continuation requests that open a _call_gemini_once call (the
\* others are its fallback retry).
ContinuationCalls == {i \in ContinuationRequests : ~gLog[i].retry}

\* C14: during every Gemini SDK request of one LLM call, the initial one
\* and every continuation, GEMINI_API_KEY is set and GOOGLE_API_KEY is
\* unset.
C14_EveryRequestRunsWithForcedEnv ==
    \A i \in DOMAIN gLog :
        gLog[i].env.gemini = "key" /\ gLog[i].env.google = "unset"

\* The finish reasons that name a truncation, in any letter case.
TruncationVariants ==
    {"MAX_TOKENS", "max_tokens", "MAX_TOKEN", "LENGTH", "TOKEN_LIMIT"}

\* C15 as stated: a continuation request is issued only after a response
\* whose finish reason is a truncation variant, and at most 2 continuation
\* requests are issued per call.
C15_AtMostTwoContinuationRequests ==
    /\ \A i \in ContinuationRequests : gLog[i].after \in TruncationVariants
    /\ Cardinality(ContinuationRequests) <= 2

\* C15 amended: a continuation request is issued only after a response
\* whose finish reason is a truncation variant; at most 2 continuation
\* calls are made, each of one request plus at most one fallback retry, so
\* at most 4 continuation requests.
C15_AtMostTwoContinuationCalls ==
    /\ \A i \in ContinuationRequests : gLog[i].after \in TruncationVariants
    /\ Cardinality(ContinuationCalls) <= 2
    /\ Cardinality(ContinuationRequests) <= 4
    /\ \A i \in ContinuationRequests :
          gLog[i].retry =>
              i > 1 /\ gLog[i - 1].kind = "continuation" /\ ~gLog[i - 1].retry

\* Both continuation calls were made and the call returned.
C15_Witness ==
    /\ gPc = "done"
    /\ Cardinality(ContinuationCalls) = 2
    /\ gReason \in TruncationVariants

(***************************************************************************)
(* api/impact.py : fetch_impact_context on a cache miss, _generate_context *)
(* and its two providers; pipeline/executor.py : the caller.               *)
(*                                                                         *)
(* A text is abstracted to the heading lines it holds, in order, and to    *)
(* whether it ends on an alphanumeric character without terminal           *)
(* punctuation: [empty, heads, trunc].                                     *)
(***************************************************************************)
\* CONTEXT_SECTION_HEADINGS, each as the marker "### <heading>".
ContextSectionHeadings ==
    <<"### Existing Vulnerabilities", "### Weather Impact Thresholds",
      "### Exposed Populations and Assets", "### Upcoming Events">>

\* A heading written in another of the forms _standardize_context_headings
\* recognises (bold, no hashes).
BoldUpcomingEvents == "**Upcoming Events**"

\* The heading lines a provider answer can hold.
HeadingLines == Range(ContextSectionHeadings) \cup {BoldUpcomingEvents}

\* Longest first answer, in heading lines.
MaxChunk == 3

\* Longest continuation answer, in heading lines.
MaxContinuationChunk == 1

\* range(2) in _generate_context_gemini_search
MaxContextContinuations == 2


NoText == [empty |-> TRUE, heads |-> <<>>, trunc |-> FALSE]

\* The non-empty answers of at most n heading lines, no line repeated.
Chunks(n) ==
    {[empty |-> FALSE, heads |-> s, trunc |-> b] :
        s \in UNION {{q \in [1..m -> HeadingLines] :
                        \A i, j \in 1..m : i # j => q[i] # q[j]} : m \in 0..n},
        b \in BOOLEAN}

\* The answers a first request can give.
FirstChunks == Chunks(MaxChunk)

\* The answers a continuation request can give.
ContinuationChunks == Chunks(MaxContinuationChunk)

\* _standardize_context_headings(text)
StandardizeContextHeadings(heads) ==
    [i \in DOMAIN heads |->
        IF heads[i] = BoldUpcomingEvents THEN ContextSectionHeadings[4]
        ELSE heads[i]]

\* _is_complete(text)
IsComplete(text) ==
    /\ ~text.empty
    /\ \A h \in Range(ContextSectionHeadings) :
          h \in Range(StandardizeContextHeadings(text.heads))

\* _looks_truncated(text)
LooksTruncated(text) == ~text.empty /\ text.trunc

\* _first_missing_heading(text); "" models None.
FirstMissingHeading(text) ==
    LET missing == {i \in 1..4 : ContextSectionHeadings[i] \notin Range(text.heads)}
    IN  IF missing = {} THEN ""
        ELSE ContextSectionHeadings[CHOOSE i \in missing : \A j \in missing : i <= j]

\* A plausible slip: the continuation is dropped.
MergeContextChunksKeepsExisting(existing, addition) == existing

\* _merge_context_chunks(existing, addition)
MergeContextChunks(existing, addition) ==
    IF existing.empty THEN addition
    ELSE IF addition.empty THEN existing
    ELSE [empty |-> FALSE, heads |-> existing.heads \o addition.heads,
          trunc |-> addition.trunc]

\* _clean_context_text(text)
CleanContextText(text) ==
    IF text.empty THEN NoText
    ELSE [text EXCEPT !.heads = StandardizeContextHeadings(text.heads)]

\* What a provider request can do: answer with text, answer without text,
\* or raise.
CallOutcomes == {"ok", "empty", "fail"}

\* _call(contents): the text and cost of one Gemini request.
GeminiCall(outcome, chunk, rate) ==
    CASE outcome = "fail"  -> [text |-> NoText, cost |-> 0]
      [] outcome = "empty" -> [text |-> NoText, cost |-> rate]
      [] outcome = "ok"    -> [text |-> chunk, cost |-> rate]

\* A plausible slip: the cost of the generated text is not handed on.
FetchResultDropsCost(context, cost) == [content |-> context, cost |-> 0]

\* The ImpactContext fetch_impact_context builds from _generate_context's
\* (context_text, cost_cents), with the zeroing of the cost of an empty text.
FetchResult(context, cost) ==
    IF context.empty THEN [content |-> NoText, cost |-> 0]
    ELSE [content |-> context, cost |-> cost]

ImpactInit ==
    /\ iProvider \in {"gemini", "openai"}
    /\ iKey \in BOOLEAN
    /\ iRate = 1
    /\ iPc = "start"
    /\ iCombined = NoText
    /\ iCost = 0
    /\ iRound = 0
    /\ iCalls = <<>>
    /\ iResult = [content |-> NoText, cost |-> 0]
    /\ FetchIdle
    /\ ThinIdle
    /\ CacheIdle
    /\ PipelineIdle
    /\ CostIdle
    /\ SnowIdle
    /\ GeminiIdle
    /\ RefreshIdle
    /\ NamingIdle
    /\ CliIdle
    /\ SnapshotIdle
    /\ DaysIdle
    /\ LlmIdle
    /\ NwpIdle
    /\ PathsIdle

\* One provider request is made.
Called(kind, outcome, chunk) ==
    iCalls' = Append(iCalls, [kind |-> kind, outcome |-> outcome,
                              chunk |-> IF outcome = "ok" THEN chunk ELSE NoText,
                              missing |-> FirstMissingHeading(iCombined)])

\* _generate_context returns (context_text, cost_cents) to
\* fetch_impact_context, which stores a non-empty context (the write is
\* modelled in SpecCache) and returns.
Generated(text, cost) ==
    /\ iResult' = FetchResult(CleanContextText(text), cost)
    /\ iPc' = "returned"

\* fetch_impact_context after the cache miss: _generate_context picks the
\* provider, which returns ("", 0.0) at once without its API key.
ImpactBegin ==
    /\ iPc = "start"
    /\ IF iKey
       THEN iPc' = "setup" /\ UNCHANGED iResult
       ELSE Generated(NoText, 0)
    /\ UNCHANGED <<iProvider, iKey, iRate, iCombined, iCost, iRound, iCalls>>
    /\ UNCHANGED nonImpactVars

\* The SDK import and client construction, outside any try.
ProviderSetup ==
    /\ iPc = "setup"
    /\ iPc' \in {"first", "raised"}
    /\ UNCHANGED <<iProvider, iKey, iRate, iCombined, iCost, iRound, iCalls,
                   iResult>>
    /\ UNCHANGED nonImpactVars

\* The loop test of `for _ in range(2)`: another pass is due.
ContinuationDue(text, round) ==
    /\ round < MaxContextContinuations
    /\ ~(IsComplete(text) /\ ~LooksTruncated(text))

\* The continuation loop is entered or gone round with (text, cost, round):
\* it goes on to another _call, or is left and (combined, cost_cents)
\* returned.
LoopWith(text, cost, round) ==
    /\ iCombined' = text
    /\ iCost' = cost
    /\ iRound' = round
    /\ IF ContinuationDue(text, round)
       THEN iPc' = "loop" /\ UNCHANGED iResult
       ELSE Generated(text, cost)

\* The first pass: _call(prompt) for Gemini, client.responses.create for
\* OpenAI.
FirstCall ==
    /\ iPc = "first"
    /\ \E outcome \in CallOutcomes, chunk \in FirstChunks :
         /\ Called("first", outcome, chunk)
         /\ IF iProvider = "gemini"
            THEN LET r == GeminiCall(outcome, chunk, iRate)
                 IN  IF r.text.empty
                     THEN /\ Generated(NoText, 0)
                          /\ UNCHANGED <<iCombined, iCost, iRound>>
                     ELSE LoopWith(r.text, r.cost, 0)
            ELSE /\ IF outcome = "fail"
                    THEN iPc' = "chat" /\ UNCHANGED <<iCombined, iCost, iResult>>
                    ELSE /\ iCombined' = IF outcome = "ok" THEN chunk ELSE NoText
                         /\ iCost' = iRate
                         /\ Generated(iCombined', iCost')
                 /\ UNCHANGED iRound
    /\ UNCHANGED <<iProvider, iKey, iRate>>
    /\ UNCHANGED nonImpactVars

\* client.chat.completions.create, the OpenAI fallback.
ChatFallback ==
    /\ iPc = "chat"
    /\ \E outcome \in CallOutcomes, chunk \in FirstChunks :
         /\ Called("chat", outcome, chunk)
         /\ iCombined' = IF outcome = "ok" THEN chunk ELSE NoText
         /\ iCost' = IF outcome = "fail" THEN 0 ELSE iRate
         /\ Generated(iCombined', iCost')
    /\ UNCHANGED <<iProvider, iKey, iRate, iRound>>
    /\ UNCHANGED nonImpactVars

\* One pass of the loop: _call(continuation); an empty answer breaks out of
\* the loop, another one is merged and the loop test made again.
ContinuationCall ==
    /\ iPc = "loop"
    /\ \E outcome \in CallOutcomes, chunk \in ContinuationChunks :
         /\ Called("continuation", outcome, chunk)
         /\ LET r == GeminiCall(outcome, chunk, iRate)
            IN  IF r.text.empty
                THEN /\ Generated(iCombined, iCost)
                     /\ UNCHANGED <<iCombined, iCost, iRound>>
                ELSE LoopWith(MergeContextChunks(iCombined, r.text),
                              iCost + r.cost, iRound + 1)
    /\ UNCHANGED <<iProvider, iKey, iRate>>
    /\ UNCHANGED nonImpactVars

\* The caller takes impact_context.content and goes on to the forecast.
CallerProceeds ==
    /\ iPc = "returned"
    /\ iPc' = "forecast"
    /\ UNCHANGED <<iProvider, iKey, iRate, iCombined, iCost, iRound, iCalls,
                   iResult>>
    /\ UNCHANGED nonImpactVars

ImpactNext ==
    \/ ImpactBegin
    \/ ProviderSetup
    \/ FirstCall
    \/ ChatFallback
    \/ ContinuationCall
    \/ CallerProceeds

SpecImpact == ImpactInit /\ [][ImpactNext]_vars

\* fetch_impact_context has returned to its caller.
ImpactReturned == iPc \in {"returned", "forecast"}

\* The continuation calls made.
ContextContinuations == {i \in DOMAIN iCalls : iCalls[i].kind = "continuation"}

\* The first n required headings occur in heads in the required order.
HeadingsInOrder(heads, n) ==
    \E pos \in [1..n -> DOMAIN heads] :
        /\ \A i \in 1..n : heads[pos[i]] = ContextSectionHeadings[i]
        /\ \A i \in 1..(n - 1) : pos[i] < pos[i + 1]

\* The first Gemini answer holds the markers of the first three headings and
\* not the marker "### Upcoming Events".
FirstMissesOnlyUpcomingEvents ==
    /\ iProvider = "gemini"
    /\ Len(iCalls) >= 1
    /\ iCalls[1].outcome = "ok"
    /\ \A i \in 1..3 : ContextSectionHeadings[i] \in Range(iCalls[1].chunk.heads)
    /\ ContextSectionHeadings[4] \notin Range(iCalls[1].chunk.heads)

SuppliesUpcomingEvents(i) ==
    /\ iCalls[i].outcome = "ok"
    /\ ContextSectionHeadings[4] \in
          Range(StandardizeContextHeadings(iCalls[i].chunk.heads))
    /\ ~iCalls[i].chunk.trunc

SomeCallFailed == \E i \in DOMAIN iCalls : iCalls[i].outcome = "fail"

\* The fetch produced no text: the first Gemini request raised, or the
\* OpenAI request and its chat-completions fallback both raised.
GenerationFailed ==
    \/ iProvider = "gemini" /\ Len(iCalls) >= 1 /\ iCalls[1].outcome = "fail"
    \/ iProvider = "openai" /\ Len(iCalls) = 2 /\ iCalls[2].outcome = "fail"

\* C17 as stated: whenever the context provider call fails, the fetch
\* returns empty content with cost 0, does not raise, and the caller goes on
\* to the forecast without impact context.
C17_ProviderFailureReturnsEmpty ==
    (SomeCallFailed /\ iPc \notin {"first", "chat", "loop"}) =>
        /\ ImpactReturned
        /\ iResult.content.empty
        /\ iResult.cost = 0

\* C17 amended: when the first Gemini request fails, or the OpenAI request
\* and its fallback both fail, the fetch returns empty content with cost 0
\* without raising and the caller goes on without impact context; a failed
\* Gemini continuation keeps the text and cost gathered before it, and a
\* failed OpenAI request whose fallback answers returns the fallback's text.
C17_FailedGenerationReturnsEmpty ==
    /\ (GenerationFailed /\ iPc \notin {"first", "chat", "loop"}) =>
          /\ ImpactReturned
          /\ iResult.content.empty
          /\ iResult.cost = 0
    /\ (/\ ImpactReturned
        /\ \E i \in ContextContinuations : iCalls[i].outcome = "fail") =>
          /\ ~iResult.content.empty
          /\ iResult.content = CleanContextText(iCombined)
          /\ iResult.cost = iRate * (Len(iCalls) - 1)

\* The caller has gone on to the forecast after a failed generation.
C17_Witness ==
    /\ iPc = "forecast"
    /\ GenerationFailed
    /\ iResult.content.empty

(***************************************************************************)
(* The refresh-interval skip policy.  web/scaffold.py writes the           *)
(* placeholder pages and config/models.py declares the intervals; the      *)
(* decision itself (_should_skip_recent_output, exercised by               *)
(* tests/test_recent_overwrite.py) is modelled from the specification.     *)
(***************************************************************************)
\* Largest interval and page age (minutes) considered.
MaxMinutes == 2

\* Pipeline runs per behaviour.
MaxRuns == 2

\* None for an entity's minimum_refresh_minutes.
NoOverride == 0 - 1

\* The entity's override when it has one, else the global interval.
EffectiveRefreshMinutes(global, override) ==
    IF override = NoOverride THEN global ELSE override

\* A plausible slip: the placeholder is taken for a rendered page.
ShouldSkipRecentOutputCountsPlaceholder(global, override, page, age) ==
    /\ page # "absent"
    /\ EffectiveRefreshMinutes(global, override) > 0
    /\ age < EffectiveRefreshMinutes(global, override)

\* _should_skip_recent_output(config, name, minimum_refresh_minutes=...)
ShouldSkipRecentOutput(global, override, page, age) ==
    /\ EffectiveRefreshMinutes(global, override) > 0
    /\ page = "real"
    /\ age < EffectiveRefreshMinutes(global, override)

RefreshInit ==
    /\ rGlobal \in 0..MaxMinutes
    /\ rOverride \in {NoOverride} \cup 0..MaxMinutes
    /\ rPage = "absent"
    /\ rAge = 0
    /\ rPc = "idle"
    /\ rSeen = [page |-> "absent", age |-> 0]
    /\ rSkipped = FALSE
    /\ rRuns = 0
    /\ FetchIdle
    /\ ThinIdle
    /\ CacheIdle
    /\ PipelineIdle
    /\ CostIdle
    /\ SnowIdle
    /\ GeminiIdle
    /\ ImpactIdle
    /\ NamingIdle
    /\ CliIdle
    /\ SnapshotIdle
    /\ DaysIdle
    /\ LlmIdle
    /\ NwpIdle
    /\ PathsIdle

\* write_placeholder(target, title, force, report)
WritePlaceholder ==
    /\ rPc = "idle"
    /\ \E force \in BOOLEAN :
         IF rPage # "absent" /\ ~force
         THEN UNCHANGED <<rPage, rAge>>
         ELSE rPage' = "placeholder" /\ rAge' = 0
    /\ UNCHANGED <<rGlobal, rOverride, rPc, rSeen, rSkipped, rRuns>>
    /\ UNCHANGED nonRefreshVars

\* A minute passes.
MinutePasses ==
    /\ rPc = "idle"
    /\ rAge < MaxMinutes
    /\ rAge' = rAge + 1
    /\ UNCHANGED <<rGlobal, rOverride, rPage, rPc, rSeen, rSkipped, rRuns>>
    /\ UNCHANGED nonRefreshVars

\* A run reaches the entity and decides whether to skip it.
DecideSkip ==
    /\ rPc = "idle"
    /\ rRuns < MaxRuns
    /\ rSeen' = [page |-> rPage, age |-> rAge]
    /\ rSkipped' = ShouldSkipRecentOutput(rGlobal, rOverride, rPage, rAge)
    /\ rPc' = "decided"
    /\ rRuns' = rRuns + 1
    /\ UNCHANGED <<rGlobal, rOverride, rPage, rAge>>
    /\ UNCHANGED nonRefreshVars

\* The entity is left alone when skipped; otherwise it is processed and
\* render_forecast_page writes its page unless a stage gave up earlier.
ProcessOrSkip ==
    /\ rPc = "decided"
    /\ IF rSkipped
       THEN UNCHANGED <<rPage, rAge>>
       ELSE \E rendered \in BOOLEAN :
              IF rendered THEN rPage' = "real" /\ rAge' = 0
              ELSE UNCHANGED <<rPage, rAge>>
    /\ rPc' = "idle"
    /\ UNCHANGED <<rGlobal, rOverride, rSeen, rSkipped, rRuns>>
    /\ UNCHANGED nonRefreshVars

RefreshNext ==
    \/ WritePlaceholder
    \/ MinutePasses
    \/ DecideSkip
    \/ ProcessOrSkip

SpecRefresh == RefreshInit /\ [][RefreshNext]_vars

MaxNames == 3

\* Location names a configuration can hold (LocationConfig.name is any
\* string).
NameChoices == {"Paris", "Paris 1", "Paris (Ensemble)", "Lyon"}

\* ModelSpec.kind
ModelKinds == {"deterministic", "ensemble"}

\* name_counts[name]
NameCount(names, name) == Cardinality({i \in DOMAIN names : names[i] = name})

\* name_kinds_all[name]
NameKindsAll(names, kinds, name) == {kinds[i] : i \in {j \in DOMAIN names : names[j] = name}}

\* name_should_use_kinds[name]
NameShouldUseKinds(names, kinds, name) ==
    NameCount(names, name) = 2 /\ Cardinality(NameKindsAll(names, kinds, name)) = 2

\* The display name appended for one location of the second pass.
DisplayName(names, kinds, name, kind, occurrence) ==
    IF NameCount(names, name) = 1 THEN name
    ELSE IF NameShouldUseKinds(names, kinds, name)
         THEN IF kind = "deterministic" THEN name \o " (Deterministic)"
              ELSE name \o " (Ensemble)"
         ELSE name \o " " \o ToString(occurrence)

NamingInit ==
    /\ \E n \in 1..MaxNames :
         /\ nNames \in [1..n -> NameChoices]
         /\ nKinds \in [1..n -> ModelKinds]
    /\ nPc = "start"
    /\ nIdx = 0
    /\ nOccurrences = <<>>
    /\ nResult = <<>>
    /\ FetchIdle
    /\ ThinIdle
    /\ CacheIdle
    /\ PipelineIdle
    /\ CostIdle
    /\ SnowIdle
    /\ GeminiIdle
    /\ ImpactIdle
    /\ RefreshIdle
    /\ CliIdle
    /\ SnapshotIdle
    /\ DaysIdle
    /\ LlmIdle
    /\ NwpIdle
    /\ PathsIdle

\* The first pass (counts and kinds) has run; result and name_occurrences
\* are created empty.
NamesCounted ==
    /\ nPc = "start"
    /\ nPc' = "assign"
    /\ nIdx' = 1
    /\ nOccurrences' = [name \in Range(nNames) |-> 0]
    /\ nResult' = <<>>
    /\ UNCHANGED <<nNames, nKinds>>
    /\ UNCHANGED nonNamingVars

\* One iteration of the second pass.
AssignName ==
    /\ nPc = "assign"
    /\ nIdx <= Len(nNames)
    /\ LET name == nNames[nIdx]
           occurrence == nOccurrences[name] + 1
       IN  /\ nOccurrences' =
                 IF NameCount(nNames, name) = 1 THEN nOccurrences
                 ELSE [nOccurrences EXCEPT ![name] = occurrence]
           /\ nResult' = Append(nResult,
                 DisplayName(nNames, nKinds, name, nKinds[nIdx], occurrence))
    /\ nIdx' = nIdx + 1
    /\ UNCHANGED <<nNames, nKinds, nPc>>
    /\ UNCHANGED nonNamingVars

\* return result
NamesReturned ==
    /\ nPc = "assign"
    /\ nIdx > Len(nNames)
    /\ nPc' = "done"
    /\ UNCHANGED <<nNames, nKinds, nIdx, nOccurrences, nResult>>
    /\ UNCHANGED nonNamingVars

NamingNext ==
    \/ NamesCounted
    \/ AssignName
    \/ NamesReturned

SpecNaming == NamingInit /\ [][NamingNext]_vars

\* C19: for every list of configured locations (names and model kinds), the
\* generated display names are pairwise distinct.
C19_DisplayNamesPairwiseDistinct ==
    nPc = "done" =>
        \A i, j \in DOMAIN nResult : i # j => nResult[i] # nResult[j]


(***************************************************************************)
(* Order of areas and their member locations (execute_pipeline)            *)
(***************************************************************************)
\* The area e has reached the stages that produce its forecast.
AreaForecastUnderWay(e) ==
    IsArea(e) /\ (pDone[e] # "pending" \/ (pEnt = e /\ pPc \in {"llm", "translate", "render"}))

\* C20: no area's forecast is generated before every one of its member
\* locations that is configured as a location has finished being processed.
C20_AreaForecastAfterItsConfiguredMembers ==
    \A e \in 1..NumEntities :
        (AreaForecastUnderWay(e) /\ pDone[e] # "skipped") =>
            \A l \in pConfig.configured : pDone[l] \in {"rendered", "skipped"}

\* An area with a member configured as a location is at its forecast call.
C20_Witness ==
    /\ pPc = "llm"
    /\ IsArea(pEnt)
    /\ pConfig.configured # {}
    /\ \E l \in pConfig.configured : pDone[l] = "rendered"

(***************************************************************************)
(* The cost summary at the end of a run (execute_pipeline)                 *)
(***************************************************************************)
\* C21: every pipeline run ends by printing the cost-summary table,
\* including runs in which entities were skipped or failed.
C21_EveryRunEndsWithCostSummary ==
    RunOver => pCostLogged

(***************************************************************************)
(* A whole run and its side effects (cli.run, generate_site_structure,     *)
(* execute_pipeline)                                                       *)
(***************************************************************************)
MaxCliLocations == 2

MaxCliAreas == 1

\* Directories created when the package's modules are imported.
CacheDirs ==
    {"ibf_cache/processed", "ibf_cache/prompts", "ibf_cache/impact",
     "ibf_cache/geocode"}

WebRoot == "web_root"

CliEntities == uConfig.locs + uConfig.areas

EntityDir(i) == WebRoot \o "/" \o ToString(i)

EntityPage(i) == EntityDir(i) \o "/index.html"

Favicon == WebRoot \o "/favicon.svg"

MenuIndex == WebRoot \o "/index.html"

MapState == WebRoot \o "/.ibf_maps_hash"

\* What the working directory holds before the run: nothing, the cache
\* directories of an earlier import, or the whole site of an earlier run.
DiskStates(n) ==
    { [dirs |-> {}, files |-> {}],
      [dirs |-> CacheDirs, files |-> {}],
      [dirs |-> CacheDirs \cup {WebRoot} \cup {EntityDir(i) : i \in 1..n},
       files |-> {Favicon, MenuIndex} \cup {EntityPage(i) : i \in 1..n}] }

\* ensure_directory: mkdir(parents=True, exist_ok=True) for each directory.
EnsureDirectories(ds) ==
    /\ uDiskDirs' = uDiskDirs \cup ds
    /\ uDirs' = uDirs \cup (ds \ uDiskDirs)

\* write_text_file for each file.
WriteFiles(fs) ==
    /\ uDiskFiles' = uDiskFiles \cup fs
    /\ uFiles' = uFiles \cup fs

\* write_favicon / write_placeholder with force = False: only absent files.
Absent(fs) == fs \ uDiskFiles

CliInit ==
    /\ uEntry \in {"cli", "library"}
    /\ uDry \in BOOLEAN
    /\ uMaps \in BOOLEAN
    /\ \E l \in 0..MaxCliLocations, a \in 0..MaxCliAreas :
         /\ uConfig = [locs |-> l, areas |-> a]
         /\ \E d \in DiskStates(l + a) :
              /\ uDiskDirs = d.dirs
              /\ uDiskFiles = d.files
    /\ uPc = "start"
    /\ uIdx = 0
    /\ uDirs = {}
    /\ uFiles = {}
    /\ uNet = FALSE
    /\ FetchIdle
    /\ ThinIdle
    /\ CacheIdle
    /\ PipelineIdle
    /\ CostIdle
    /\ SnowIdle
    /\ GeminiIdle
    /\ ImpactIdle
    /\ RefreshIdle
    /\ NamingIdle
    /\ SnapshotIdle
    /\ DaysIdle
    /\ LlmIdle
    /\ NwpIdle
    /\ PathsIdle

\* Importing ibf.pipeline.executor (cli.py:20, or the caller's import) runs
\* the module-level ensure_directory calls of executor, impact, geocode
\* and alerts.
ImportPackage ==
    /\ uPc = "start"
    /\ EnsureDirectories(CacheDirs)
    /\ uPc' = "loaded"
    /\ UNCHANGED <<uEntry, uDry, uMaps, uConfig, uDiskFiles, uIdx, uFiles,
                   uNet>>
    /\ UNCHANGED nonCliVars

\* run: `if dry_run: ... return`.
DryRun ==
    /\ uPc = "loaded"
    /\ uEntry = "cli"
    /\ uDry
    /\ uPc' = "finished"
    /\ UNCHANGED <<uEntry, uDry, uMaps, uConfig, uDiskDirs, uDiskFiles,
                   uIdx, uDirs, uFiles, uNet>>
    /\ UNCHANGED nonCliVars

\* generate_site_structure: the web root and the favicon.
ScaffoldRoot ==
    /\ uPc = "loaded"
    /\ uEntry = "cli"
    /\ ~uDry
    /\ EnsureDirectories({WebRoot})
    /\ WriteFiles(Absent({Favicon}))
    /\ uPc' = "scaffold"
    /\ uIdx' = 1
    /\ UNCHANGED <<uEntry, uDry, uMaps, uConfig, uNet>>
    /\ UNCHANGED nonCliVars

\* generate_site_structure: one location or area directory and placeholder.
ScaffoldEntity ==
    /\ uPc = "scaffold"
    /\ uIdx <= CliEntities
    /\ EnsureDirectories({EntityDir(uIdx)})
    /\ WriteFiles(Absent({EntityPage(uIdx)}))
    /\ uIdx' = uIdx + 1
    /\ UNCHANGED <<uEntry, uDry, uMaps, uConfig, uPc, uNet>>
    /\ UNCHANGED nonCliVars

\* generate_site_structure: the menu page is written on every call.
ScaffoldMenu ==
    /\ uPc = "scaffold"
    /\ uIdx > CliEntities
    /\ WriteFiles({MenuIndex})
    /\ uPc' = "maps"
    /\ UNCHANGED <<uEntry, uDry, uMaps, uConfig, uDiskDirs, uIdx, uDirs,
                   uNet>>
    /\ UNCHANGED nonCliVars

\* run: the automatic map step; with areas configured the map state file is
\* written unless generate_area_maps raises ValueError.
AreaMaps ==
    /\ uPc = "maps"
    /\ IF uMaps /\ uConfig.areas > 0
       THEN \E written \in BOOLEAN, fetched \in BOOLEAN :
              /\ WriteFiles(IF written THEN {MapState} ELSE {})
              /\ uNet' = (uNet \/ fetched)
       ELSE UNCHANGED <<uDiskFiles, uFiles, uNet>>
    /\ uPc' = "pipeline"
    /\ UNCHANGED <<uEntry, uDry, uMaps, uConfig, uDiskDirs, uIdx, uDirs>>
    /\ UNCHANGED nonCliVars

\* A caller that imports the package and calls execute_pipeline itself.
LibraryCall ==
    /\ uPc = "loaded"
    /\ uEntry = "library"
    /\ uPc' = "pipeline"
    /\ UNCHANGED <<uEntry, uDry, uMaps, uConfig, uDiskDirs, uDiskFiles,
                   uIdx, uDirs, uFiles, uNet>>
    /\ UNCHANGED nonCliVars

\* execute_pipeline: `if not config.locations and not config.areas: return`.
ExecuteEmpty ==
    /\ uPc = "pipeline"
    /\ CliEntities = 0
    /\ uPc' = "finished"
    /\ UNCHANGED <<uEntry, uDry, uMaps, uConfig, uDiskDirs, uDiskFiles,
                   uIdx, uDirs, uFiles, uNet>>
    /\ UNCHANGED nonCliVars

ExecuteStart ==
    /\ uPc = "pipeline"
    /\ CliEntities > 0
    /\ uPc' = "entity"
    /\ uIdx' = 1
    /\ UNCHANGED <<uEntry, uDry, uMaps, uConfig, uDiskDirs, uDiskFiles,
                   uDirs, uFiles, uNet>>
    /\ UNCHANGED nonCliVars

\* One location or area: requests to the geocoder, the forecast service and
\* the LLM (unless answered from caches), then the page is rendered or the
\* entity is skipped.
ProcessEntity ==
    /\ uPc = "entity"
    /\ uIdx <= CliEntities
    /\ \E rendered \in BOOLEAN, fetched \in BOOLEAN :
         /\ uNet' = (uNet \/ fetched)
         /\ IF rendered
            THEN /\ EnsureDirectories({WebRoot, EntityDir(uIdx)})
                 /\ WriteFiles({EntityPage(uIdx)})
            ELSE UNCHANGED <<uDiskDirs, uDirs, uDiskFiles, uFiles>>
    /\ uIdx' = uIdx + 1
    /\ UNCHANGED <<uEntry, uDry, uMaps, uConfig, uPc>>
    /\ UNCHANGED nonCliVars

ExecuteEnds ==
    /\ uPc = "entity"
    /\ uIdx > CliEntities
    /\ uPc' = "finished"
    /\ UNCHANGED <<uEntry, uDry, uMaps, uConfig, uDiskDirs, uDiskFiles,
                   uIdx, uDirs, uFiles, uNet>>
    /\ UNCHANGED nonCliVars

CliNext ==
    \/ ImportPackage
    \/ DryRun
    \/ ScaffoldRoot
    \/ ScaffoldEntity
    \/ ScaffoldMenu
    \/ AreaMaps
    \/ LibraryCall
    \/ ExecuteEmpty
    \/ ExecuteStart
    \/ ProcessEntity
    \/ ExecuteEnds

SpecCli == CliInit /\ [][CliNext]_vars

\* C22: a run with no locations and no areas configured completes with no
\* side effects: it has written no file, created no directory and made no
\* network call.
C22_EmptyRunHasNoSideEffects ==
    (uPc = "finished" /\ CliEntities = 0)
        => (uDirs = {} /\ uFiles = {} /\ ~uNet)

(***************************************************************************)
(* Prompt snapshots (_snapshot_prompt, _cleanup_prompt_cache)              *)
(***************************************************************************)
MaxAgeDays == 3

MinKeep == 10

MaxSnapshots == 11

MaxClock == 4

NoCleanup ==
    [ran |-> FALSE, before |-> <<>>, deleted |-> {}, failed |-> {}, now |-> 0]

\* file_time < cutoff_time, cutoff_time = now - max_age_days.
OlderThanCutoff(fileTime, now) == fileTime < now - MaxAgeDays

\* prompt_files.sort(newest first)[:min_keep]: the files before which fewer
\* than min_keep files are sorted.  Files of one timestamp keep the order
\* of the directory listing, taken here as last written first; they differ
\* in nothing else.
FilesToKeepOldest(files) ==
    {i \in 1..Len(files) :
        Cardinality({j \in 1..Len(files) :
            \/ files[j] < files[i]
            \/ files[j] = files[i] /\ j < i}) < MinKeep}

FilesToKeep(files) ==
    {i \in 1..Len(files) :
        Cardinality({j \in 1..Len(files) :
            \/ files[j] > files[i]
            \/ files[j] = files[i] /\ j > i}) < MinKeep}

\* The files left after path.unlink() of the files in `gone`.
Remaining(files, gone) ==
    LET F[i \in 0..Len(files)] ==
            IF i = 0 THEN <<>>
            ELSE IF i \in gone THEN F[i - 1]
                 ELSE Append(F[i - 1], files[i])
    IN  F[Len(files)]

SnapshotInit ==
    /\ qClock = 0
    /\ qFiles = <<>>
    /\ qLast = NoCleanup
    /\ FetchIdle
    /\ ThinIdle
    /\ CacheIdle
    /\ PipelineIdle
    /\ CostIdle
    /\ SnowIdle
    /\ GeminiIdle
    /\ ImpactIdle
    /\ RefreshIdle
    /\ NamingIdle
    /\ CliIdle
    /\ DaysIdle
    /\ LlmIdle
    /\ NwpIdle
    /\ PathsIdle

DayPasses ==
    /\ qClock < MaxClock
    /\ qClock' = qClock + 1
    /\ UNCHANGED <<qFiles, qLast>>
    /\ UNCHANGED nonSnapshotVars

\* _cleanup_prompt_cache on the directory content `files` at time qClock:
\* the files after the first min_keep that are older than the cutoff are
\* unlinked; an unlink that raises OSError leaves its file.
CleanupPromptCache(files) ==
    LET keep == FilesToKeep(files)
        toCheck == (1..Len(files)) \ keep
        old == {i \in toCheck : OlderThanCutoff(files[i], qClock)}
    IN  \E failed \in SUBSET old :
          /\ qFiles' = Remaining(files, old \ failed)
          /\ qLast' = [ran |-> TRUE, before |-> files,
                       deleted |-> old \ failed, failed |-> failed,
                       now |-> qClock]

\* _snapshot_prompt: write the file named by the current time, then clean
\* up; a failed write is caught and skips the cleanup.
SnapshotPrompt ==
    /\ Len(qFiles) < MaxSnapshots
    /\ \E written \in BOOLEAN :
         IF written
         THEN CleanupPromptCache(Append(qFiles, qClock))
         ELSE UNCHANGED <<qFiles, qLast>>
    /\ UNCHANGED qClock
    /\ UNCHANGED nonSnapshotVars

SnapshotNext ==
    \/ DayPasses
    \/ SnapshotPrompt

SpecSnapshot == SnapshotInit /\ [][SnapshotNext]_vars

\* Number of snapshots of the last cleanup with a timestamp newer than i's.
NewerCount(i) ==
    Cardinality({j \in 1..Len(qLast.before) :
                   qLast.before[j] > qLast.before[i]})

\* C23: after prompt-snapshot cleanup, a snapshot has been deleted if and
\* only if it is not among the 10 most recent snapshots and is older than
\* 3 days.
C23_DeletedIffOldAndBeyondTen ==
    qLast.ran =>
        \A i \in 1..Len(qLast.before) :
            (i \in qLast.deleted)
                <=> (/\ NewerCount(i) >= MinKeep
                     /\ OlderThanCutoff(qLast.before[i], qLast.now))

\* C23 (amended): after a cleanup, a snapshot has been deleted only if it
\* is older than 3 days and at least 10 snapshots that are as new or newer
\* are left in place; a snapshot older than 3 days whose removal did not
\* fail is left in place only as one of the 10 newest (snapshots of one
\* timestamp counted in any order), so every such snapshot with 10 or more
\* newer ones is deleted; and a snapshot whose removal fails stays.
C23_DeletedIffOldBeyondTenAndRemoved ==
    qLast.ran =>
        LET n == Len(qLast.before)
            kept == (1..n) \ qLast.deleted
            Old(i) == OlderThanCutoff(qLast.before[i], qLast.now)
            removable == {i \in kept : Old(i) /\ i \notin qLast.failed}
        IN  /\ \A i \in qLast.deleted :
                 /\ Old(i)
                 /\ i \notin qLast.failed
                 /\ Cardinality({j \in kept :
                        qLast.before[j] >= qLast.before[i]}) >= MinKeep
            /\ \A i \in removable :
                 NewerCount(i) + Cardinality({j \in removable :
                     qLast.before[j] = qLast.before[i]}) <= MinKeep
            /\ qLast.failed \subseteq kept
            /\ Len(qFiles) = Cardinality(kept)

C23_Witness ==
    /\ qLast.ran
    /\ qLast.deleted # {}
    /\ \E i \in 1..Len(qLast.before) :
         /\ i \notin qLast.deleted
         /\ i \notin qLast.failed
         /\ OlderThanCutoff(qLast.before[i], qLast.now)

(***************************************************************************)
(* Forecast-day resolution (_resolve_forecast_days, _limit_days)           *)
(***************************************************************************)
MaxDays == 4

MaxFallback == 4

MaxDataset == 3

\* Configured values: None, "", a non-numeric string, an integer, or the
\* decimal string of an integer.
RawValues ==
    {[kind |-> k, n |-> 0] : k \in {"none", "empty", "text"}}
        \cup {[kind |-> k, n |-> n] :
                k \in {"int", "str"}, n \in (0 - MaxDays)..MaxDays}

\* raw_value in (None, "")
IsMissing(raw) == raw.kind \in {"none", "empty"}

\* int(raw_value) raises ValueError for a non-numeric string.
IntRaises(raw) == raw.kind = "text"

Max(a, b) == IF a >= b THEN a ELSE b

ResolveForecastDays(raw, fallback) ==
    IF IsMissing(raw) THEN fallback
    ELSE IF IntRaises(raw) THEN fallback
    ELSE Max(0, raw.n)

LimitDays(days, maxDays) ==
    IF maxDays <= 0 THEN days
    ELSE IF days <= maxDays THEN days
    ELSE maxDays

DaysInit ==
    /\ dRaw \in RawValues
    /\ dFallback \in 1..MaxFallback
    /\ dDataset \in 0..MaxDataset
    /\ dPc = "start"
    /\ dDays = 0
    /\ dOut = 0
    /\ FetchIdle
    /\ ThinIdle
    /\ CacheIdle
    /\ PipelineIdle
    /\ CostIdle
    /\ SnowIdle
    /\ GeminiIdle
    /\ ImpactIdle
    /\ RefreshIdle
    /\ NamingIdle
    /\ CliIdle
    /\ SnapshotIdle
    /\ LlmIdle
    /\ NwpIdle
    /\ PathsIdle

ResolveDays ==
    /\ dPc = "start"
    /\ dDays' = ResolveForecastDays(dRaw, dFallback)
    /\ dPc' = "resolved"
    /\ UNCHANGED <<dRaw, dFallback, dDataset, dOut>>
    /\ UNCHANGED nonDaysVars

LimitDataset ==
    /\ dPc = "resolved"
    /\ dOut' = LimitDays(dDataset, dDays)
    /\ dPc' = "limited"
    /\ UNCHANGED <<dRaw, dFallback, dDataset, dDays>>
    /\ UNCHANGED nonDaysVars

DaysNext ==
    \/ ResolveDays
    \/ LimitDataset

SpecDays == DaysInit /\ [][DaysNext]_vars

\* C24: resolving the configured forecast-day count yields 1 for a
\* configured value of zero or any negative number, the fallback for a
\* missing or non-numeric value, and the value itself for a positive number.
C24_ZeroOrNegativeResolvesToOne ==
    dPc # "start" =>
        dDays = (IF dRaw.kind \in {"none", "empty", "text"} THEN dFallback
                 ELSE IF dRaw.n <= 0 THEN 1
                 ELSE dRaw.n)

(***************************************************************************)
(* Concurrent lookups on the country and geocode caches                    *)
(***************************************************************************)
\* Worker w missed the cache, resolved its own key, wrote the file and
\* returned.
WroteAfterMiss(w) ==
    /\ cPc[w] = "done"
    /\ cResult[w] = "miss"
    /\ w \in cCache[w]

\* C25: when two workers look up different keys concurrently in the geocode
\* (or country) cache, both miss, and both have written and returned, the
\* cache file holds both new entries.
C25_BothNewEntriesInCacheFile ==
    (/\ cKind \in {"country", "geocode"}
     /\ \A w \in Workers : WroteAfterMiss(w))
    => (cDisk.state = "valid" /\ Workers \subseteq cDisk.entries)

C25_Witness ==
    /\ cKind \in {"country", "geocode"}
    /\ \A w \in Workers : WroteAfterMiss(w)
    /\ Workers \subseteq cDisk.entries

\* Positions inside a `with file_lock(...)` block.
InLockedBlock(w) ==
    \/ /\ LocksRead(cKind)
       /\ cPc[w] \in {"read1", "unlink1", "decide1"}
    \/ /\ LocksWrite(cKind)
       /\ cPc[w] \in {"read2", "unlink2", "modify", "tmpCreate", "tmpWrite",
                      "replace", "unlock2"}

\* C26: cache locking is deadlock-free: a worker holds a cache file's lock
\* only inside a `with file_lock` block, so on every exit path (hit, miss,
\* finished or failed write, exception, kill) the lock is released, and no
\* worker requests the lock while it holds it.
C26_LockReleasedOnExitNeverReRequested ==
    \A w \in Workers :
        /\ cLock = w => InLockedBlock(w)
        /\ cPc[w] \in {"lock1", "lock2"} => cLock # w
        /\ cLock \in {0} \cup Workers

C26_Witness ==
    \E w, v \in Workers :
        /\ cPc[w] \in {"failed", "raised"}
        /\ cPc[v] \in {"lock1", "lock2"}
        /\ cLock = 0

(***************************************************************************)
(* The last-cost tracker of the LLM client (_LAST_COST_CENTS,              *)
(* consume_last_cost_cents) and the costs the executor records             *)
(***************************************************************************)
MaxLlmEntities == 2

MaxCallCents == 2

Providers == {"google", "openai"}

\* Cost of one answered request, from its usage metadata.
RequestCents == 1..MaxCallCents

ResetLastCostKeeps(last) == last

\* _reset_last_cost
ResetLastCost(last) == 0

\* _add_last_cost
AddLastCost(last, amount) == last + amount

LlmInit ==
    /\ vEntity = 1
    /\ vStage = "forecast"
    /\ vPc = "stage"
    /\ vProvider = "google"
    /\ vRound = 0
    /\ vLast = 0
    /\ vOwn = 0
    /\ vStale = 0
    /\ vRecord = [entity |-> 0, stage |-> "forecast", cents |-> 0, own |-> 0, stale |-> 0]
    /\ FetchIdle
    /\ ThinIdle
    /\ CacheIdle
    /\ PipelineIdle
    /\ CostIdle
    /\ SnowIdle
    /\ GeminiIdle
    /\ ImpactIdle
    /\ RefreshIdle
    /\ NamingIdle
    /\ CliIdle
    /\ SnapshotIdle
    /\ DaysIdle
    /\ NwpIdle
    /\ PathsIdle

\* The stage after the current one: the translation of the same entity,
\* then the forecast of the next entity.
NextStage ==
    IF vStage = "forecast"
    THEN /\ vStage' = "translation"
         /\ vEntity' = vEntity
         /\ vPc' = "stage"
    ELSE /\ vStage' = "forecast"
         /\ vEntity' = vEntity + 1
         /\ vPc' = IF vEntity < MaxLlmEntities THEN "stage" ELSE "finished"

\* No LLM call is made for the stage: no LLM settings, or no translation
\* language; nothing is recorded.
StageWithoutCall ==
    /\ vPc = "stage"
    /\ NextStage
    /\ UNCHANGED <<vProvider, vRound, vLast, vOwn, vStale, vRecord>>
    /\ UNCHANGED nonLlmVars

\* generate_forecast_text up to its first request: _call_gemini resets the
\* tracker, unless the SDK import before the reset fails;
\* _call_openai_compatible leaves it as it is.
CallBegins ==
    /\ vPc = "stage"
    /\ \E provider \in Providers, imported \in BOOLEAN :
         /\ vProvider' = provider
         /\ IF provider = "google" /\ ~imported
            THEN /\ vPc' = "raised"
                 /\ vLast' = vLast
            ELSE /\ vPc' = "called"
                 /\ vLast' = IF provider = "google"
                             THEN ResetLastCost(vLast) ELSE vLast
    /\ vStale' = vLast
    /\ vOwn' = 0
    /\ vRound' = 0
    /\ UNCHANGED <<vEntity, vStage, vRecord>>
    /\ UNCHANGED nonLlmVars

\* The first request raises: RuntimeError("Gemini request failed"), or the
\* exception of chat.completions.create.
FirstRequestRaises ==
    /\ vPc = "called"
    /\ vPc' = "raised"
    /\ UNCHANGED <<vEntity, vStage, vProvider, vRound, vLast, vOwn, vStale,
                   vRecord>>
    /\ UNCHANGED nonLlmVars

\* The first request is answered.  Gemini: the cost is added, an empty or
\* blocked response raises, a response cut off by the token limit goes on
\* to _maybe_continue_gemini.  OpenAI: the cost is set and the text, empty
\* or not, is returned.
FirstRequestAnswered ==
    /\ vPc = "called"
    /\ \E cents \in RequestCents, answer \in {"text", "empty", "limit"} :
         /\ vOwn' = vOwn + cents
         /\ IF vProvider = "google"
            THEN /\ vLast' = AddLastCost(vLast, cents)
                 /\ vPc' = CASE answer = "text" -> "returned"
                             [] answer = "empty" -> "raised"
                             [] OTHER -> "continuing"
            ELSE /\ vLast' = cents
                 /\ vPc' = "returned"
    /\ UNCHANGED <<vEntity, vStage, vProvider, vRound, vStale, vRecord>>
    /\ UNCHANGED nonLlmVars

\* _maybe_continue_gemini: one pass of `for _ in range(2)`.  A request that
\* raises leaves _call_gemini with the exception.
ContinuationAnswered ==
    /\ vPc = "continuing"
    /\ vRound < MaxContinuations
    /\ \E raised \in BOOLEAN, cents \in RequestCents,
          answer \in {"text", "empty", "limit"} :
         IF raised
         THEN /\ vPc' = "raised"
              /\ UNCHANGED <<vLast, vOwn, vRound>>
         ELSE /\ vLast' = AddLastCost(vLast, cents)
              /\ vOwn' = vOwn + cents
              /\ vRound' = vRound + 1
              /\ vPc' = IF answer = "limit" /\ vRound + 1 < MaxContinuations
                        THEN "continuing" ELSE "returned"
    /\ UNCHANGED <<vEntity, vStage, vProvider, vStale, vRecord>>
    /\ UNCHANGED nonLlmVars

\* The call returned: _record_cost(..., forecast=consume_last_cost_cents())
\* or, for a translation that is not None,
\* _record_cost(..., translation=consume_last_cost_cents()).
RecordConsumedCost ==
    /\ vPc = "returned"
    /\ vRecord' = [entity |-> vEntity, stage |-> vStage, cents |-> vLast,
                   own |-> vOwn, stale |-> vStale]
    /\ vLast' = 0
    /\ NextStage
    /\ UNCHANGED <<vProvider, vRound, vOwn, vStale>>
    /\ UNCHANGED nonLlmVars

\* The call raised: the executor (or _maybe_translate) catches and logs;
\* nothing is consumed or recorded.
CallFailed ==
    /\ vPc = "raised"
    /\ NextStage
    /\ UNCHANGED <<vProvider, vRound, vLast, vOwn, vStale, vRecord>>
    /\ UNCHANGED nonLlmVars

LlmNext ==
    \/ StageWithoutCall
    \/ CallBegins
    \/ FirstRequestRaises
    \/ FirstRequestAnswered
    \/ ContinuationAnswered
    \/ RecordConsumedCost
    \/ CallFailed

SpecLlm == LlmInit /\ [][LlmNext]_vars

\* C27: the forecast or translation cost recorded for an entity equals the
\* cost of the LLM requests made for that entity's own forecast or
\* translation call; a cost left unconsumed by an earlier failed or empty
\* call is in no later record.
C27_RecordedCostIsCostOfOwnRequests ==
    vRecord.entity > 0 => vRecord.cents = vRecord.own

C27_Witness ==
    /\ vRecord.stale > 0
    /\ vRecord.cents = vRecord.own
    /\ vRecord.entity = MaxLlmEntities

(***************************************************************************)
(* The NWP cache and its keys (fetch_forecast, _cache_key, _load_cache,    *)
(* _write_cache)                                                           *)
(***************************************************************************)
\* The requests made for one place and day count: the ensemble and the
\* deterministic default, the deterministic default list without freezing
\* level given explicitly, and the snow-profile request.
NwpRequests ==
    { [kind |-> "ensemble", hourly |-> <<>>],
      [kind |-> "deterministic", hourly |-> <<>>],
      [kind |-> "deterministic",
       hourly |-> RemoveHourlyField(HOURLY_FIELDS_DETERMINISTIC,
                                    "freezing_level_height")],
      [kind |-> "deterministic", hourly |-> HOURLY_FIELDS_SNOW_PROFILE] }

\* _cache_key: the kind token and the signature of _hourly_fields_for(request)
\* (the first 8 hex digits of its SHA-1, which tells these lists apart);
\* place, day count, units and model are the same for all requests here.
NwpCacheKey(request) ==
    <<IF request.kind = "ensemble" THEN "ens" ELSE "det",
      HourlyFieldsFor(request.kind, request.hourly)>>

NwpKeys == {NwpCacheKey(r) : r \in NwpRequests}

\* The hourly field list encoded in a key.
KeyFields(key) == key[2]

NoFiles == [k \in NwpKeys |-> <<>>]

NoFetch == [key |-> <<>>, fields |-> <<>>, result |-> "none"]

\* _download_forecast: the field list the returned payload was fetched
\* with, <<>> when RuntimeError is raised.  `rejected`: the first candidate
\* gets HTTP 400 and the next one, if there is one, is answered.
DownloadedFields(request, outcome) ==
    LET candidates == HourlyCandidates(request.kind, request.hourly)
    IN  IF outcome = "ok" THEN candidates[1]
        ELSE IF outcome = "rejected" /\ Len(candidates) > 1 THEN candidates[2]
        ELSE <<>>

NwpInit ==
    /\ wFiles = NoFiles
    /\ wLast = NoFetch
    /\ FetchIdle
    /\ ThinIdle
    /\ CacheIdle
    /\ PipelineIdle
    /\ CostIdle
    /\ SnowIdle
    /\ GeminiIdle
    /\ ImpactIdle
    /\ RefreshIdle
    /\ NamingIdle
    /\ CliIdle
    /\ SnapshotIdle
    /\ DaysIdle
    /\ LlmIdle
    /\ PathsIdle

\* fetch_forecast: a fresh cache file is returned; otherwise the payload is
\* downloaded and, with caching on, written to the request's cache path (a
\* failed write is logged and ignored).
FetchForecastCached ==
    /\ \E request \in NwpRequests, caching \in BOOLEAN, stale \in BOOLEAN,
          outcome \in {"ok", "rejected", "failed"}, written \in BOOLEAN :
         LET key == NwpCacheKey(request)
             data == DownloadedFields(request, outcome)
         IN  IF caching /\ wFiles[key] # <<>> /\ ~stale
             THEN /\ wLast' = [key |-> key, fields |-> wFiles[key],
                               result |-> "from_cache"]
                  /\ UNCHANGED wFiles
             ELSE IF data = <<>>
             THEN /\ wLast' = [key |-> key, fields |-> <<>>,
                               result |-> "raised"]
                  /\ UNCHANGED wFiles
             ELSE /\ wLast' = [key |-> key, fields |-> data,
                               result |-> "downloaded"]
                  /\ wFiles' = IF caching /\ written
                               THEN [wFiles EXCEPT ![key] = data]
                               ELSE wFiles
    /\ UNCHANGED nonNwpVars

\* cleanup_forecast_cache: a file older than 48 hours is deleted.
CleanupForecastCache ==
    /\ \E key \in NwpKeys :
         /\ wFiles[key] # <<>>
         /\ wFiles' = [wFiles EXCEPT ![key] = <<>>]
    /\ UNCHANGED wLast
    /\ UNCHANGED nonNwpVars

NwpNext ==
    \/ FetchForecastCached
    \/ CleanupForecastCache

SpecNwp == NwpInit /\ [][NwpNext]_vars

\* C28: every NWP cache file holds a payload that was fetched with the
\* hourly field set encoded in its cache key, and a payload served from the
\* cache was fetched with the field set of the request's key.
C28_CachedPayloadHasTheFieldsOfItsKey ==
    /\ \A key \in NwpKeys :
         wFiles[key] # <<>> => wFiles[key] = KeyFields(key)
    /\ wLast.result = "from_cache" => wLast.fields = KeyFields(wLast.key)

(***************************************************************************)
(* Display names, slugs and output paths (generate_site_structure,         *)
(* execute_pipeline, slugify)                                              *)
(*                                                                         *)
(* A name is a sequence of tokens: words, digits and separator characters. *)
(***************************************************************************)
MaxPathLocations == 2

MaxPathAreas == 1

Separators == {" ", "-", "(", ")", "."}

\* Configured names.
PathNames ==
    { <<"Paris">>, <<"paris">>, <<"Paris", " ", "1">>, <<"Lyon">> }

\* A configured model reference: none, "ens:<id>" or "det:<id>".
ModelRefs == {"none", "ens", "det"}

\* str.lower() of one token.
Lower(tok) ==
    CASE tok = "Paris" -> "paris"
      [] tok = "Lyon" -> "lyon"
      [] tok = "Deterministic" -> "deterministic"
      [] tok = "Ensemble" -> "ensemble"
      [] OTHER -> tok

\* _SLUG_PATTERN.sub("-", raw): every run of characters outside a-z0-9
\* becomes one hyphen.
SubSeparators(raw) ==
    LET F[i \in 0..Len(raw)] ==
            IF i = 0 THEN <<>>
            ELSE IF raw[i] \in Separators
                 THEN IF i > 1 /\ raw[i - 1] \in Separators
                      THEN F[i - 1]
                      ELSE Append(F[i - 1], "-")
                 ELSE Append(F[i - 1], raw[i])
    IN  F[Len(raw)]

\* .strip("-")
StripHyphens(s) ==
    LET first == IF s # <<>> /\ s[1] = "-" THEN 2 ELSE 1
        last == IF s # <<>> /\ s[Len(s)] = "-" THEN Len(s) - 1 ELSE Len(s)
    IN  SubSeq(s, first, last)

\* slugify(value); a value without letters or digits gets "item-" and a
\* digest of the value.
Slugify(value) ==
    LET raw == [i \in 1..Len(value) |-> Lower(value[i])]
        slug == StripHyphens(SubSeparators(raw))
    IN  IF slug # <<>> THEN slug ELSE <<"item-">> \o raw

\* resolve_model_spec(candidate).kind
ModelKindOf(candidate) ==
    IF candidate = "det" THEN "deterministic" ELSE "ensemble"

\* executor._resolve_model_spec(location, config).kind; ForecastConfig has
\* no ensemble_model attribute, so getattr(config, "ensemble_model", None)
\* is None.
ResolveModelSpec(locationModel, configModel) ==
    LET ensembleModel == "none"
        fromConfig == IF configModel # "none" THEN configModel
                      ELSE ensembleModel
        candidate == IF locationModel # "none" THEN locationModel
                     ELSE fromConfig
    IN  ModelKindOf(IF candidate # "none" THEN candidate ELSE "ens")

ResolveModelSpecForLocationIgnoresGlobal(locationModel, configModel) ==
    ModelKindOf(IF locationModel # "none" THEN locationModel ELSE "ens")

\* scaffold._resolve_model_spec_for_location(location, config).kind
ResolveModelSpecForLocation(locationModel, configModel) ==
    LET candidate == IF locationModel # "none" THEN locationModel
                     ELSE configModel
    IN  ModelKindOf(IF candidate # "none" THEN candidate ELSE "ens")

\* name_occurrences[name] when location i is reached in the second pass.
Occurrence(names, i) ==
    Cardinality({j \in 1..i : names[j] = names[i]})

\* executor._generate_unique_location_names(config)
ExecutorUniqueNames(config) ==
    LET names == [i \in 1..Len(config.locs) |-> config.locs[i].name]
        kinds == [i \in 1..Len(config.locs) |->
                     ResolveModelSpec(config.locs[i].model, config.model)]
    IN  [i \in 1..Len(names) |->
            IF NameCount(names, names[i]) = 1 THEN names[i]
            ELSE IF NameShouldUseKinds(names, kinds, names[i])
                 THEN IF kinds[i] = "deterministic"
                      THEN names[i] \o <<" ", "(", "Deterministic", ")">>
                      ELSE names[i] \o <<" ", "(", "Ensemble", ")">>
                 ELSE names[i] \o <<" ", ToString(Occurrence(names, i))>>]

\* naming.generate_unique_location_names(location_names, location_kinds) as
\* generate_site_structure calls it.
ScaffoldUniqueNames(config) ==
    LET names == [i \in 1..Len(config.locs) |-> config.locs[i].name]
        kinds == [i \in 1..Len(config.locs) |->
                     ResolveModelSpecForLocation(config.locs[i].model,
                                                 config.model)]
        count == [i \in 1..Len(names) |-> NameCount(names, names[i])]
        useKinds == [i \in 1..Len(names) |->
                        count[i] = 2
                        /\ Cardinality(NameKindsAll(names, kinds, names[i])) = 2]
    IN  [i \in 1..Len(names) |->
            IF count[i] = 1 THEN names[i]
            ELSE IF useKinds[i]
                 THEN IF kinds[i] = "deterministic"
                      THEN names[i] \o <<" ", "(", "Deterministic", ")">>
                      ELSE names[i] \o <<" ", "(", "Ensemble", ")">>
                 ELSE names[i] \o <<" ", ToString(Occurrence(names, i))>>]

\* The directory under the web root for each entity, locations first:
\* root / slugify(name).
EntityFolders(locationNames, areaNames) ==
    [i \in 1..Len(locationNames) |-> Slugify(locationNames[i])]
        \o [i \in 1..Len(areaNames) |-> Slugify(areaNames[i])]

PathsInit ==
    /\ \E l \in 0..MaxPathLocations, a \in 0..MaxPathAreas :
         \E locs \in [1..l -> [name : PathNames, model : ModelRefs]],
            areas \in [1..a -> PathNames], model \in ModelRefs :
           hConfig = [locs |-> locs, areas |-> areas, model |-> model]
    /\ hPc = "start"
    /\ hLabels = <<>>
    /\ hPlaceholders = <<>>
    /\ hNames = <<>>
    /\ hPages = <<>>
    /\ FetchIdle
    /\ ThinIdle
    /\ CacheIdle
    /\ PipelineIdle
    /\ CostIdle
    /\ SnowIdle
    /\ GeminiIdle
    /\ ImpactIdle
    /\ RefreshIdle
    /\ NamingIdle
    /\ CliIdle
    /\ SnapshotIdle
    /\ DaysIdle
    /\ LlmIdle
    /\ NwpIdle

\* generate_site_structure: a directory and a placeholder per location and
\* area.
GenerateSiteStructure ==
    /\ hPc = "start"
    /\ hLabels' = ScaffoldUniqueNames(hConfig)
    /\ hPlaceholders' = EntityFolders(ScaffoldUniqueNames(hConfig),
                                      hConfig.areas)
    /\ hPc' = "scaffolded"
    /\ UNCHANGED <<hConfig, hNames, hPages>>
    /\ UNCHANGED nonPathsVars

\* execute_pipeline: the destination of each entity's page,
\* _build_destination_path(config, unique_name) for a location and
\* _build_destination_path(config, area.name) for an area.
ExecutePipelinePaths ==
    /\ hPc = "scaffolded"
    /\ hNames' = ExecutorUniqueNames(hConfig)
    /\ hPages' = EntityFolders(ExecutorUniqueNames(hConfig), hConfig.areas)
    /\ hPc' = "done"
    /\ UNCHANGED <<hConfig, hLabels, hPlaceholders>>
    /\ UNCHANGED nonPathsVars

PathsNext ==
    \/ GenerateSiteStructure
    \/ ExecutePipelinePaths

SpecPaths == PathsInit /\ [][PathsNext]_vars

\* C29: within one run, no two distinct configured entities (locations or
\* areas) render to the same output path.
C29_NoTwoEntitiesShareAnOutputPath ==
    hPc = "done" =>
        \A i, j \in 1..Len(hPages) : i # j => hPages[i] # hPages[j]

\* C30: for every configuration the scaffolder and the executor derive the
\* same display name and the same slug for each location, so the page of a
\* location is written where its placeholder was created.
C30_ScaffoldAndExecutorAgreeOnLocations ==
    hPc = "done" =>
        /\ Len(hLabels) = Len(hNames)
        /\ \A i \in 1..Len(hConfig.locs) :
             /\ hLabels[i] = hNames[i]
             /\ hPlaceholders[i] = hPages[i]

C30_Witness ==
    /\ hPc = "done"
    /\ Len(hConfig.locs) = 2
    /\ hConfig.locs[1].name = hConfig.locs[2].name
    /\ hConfig.locs[1].model = "none"
    /\ hConfig.locs[2].model = "ens"
    /\ hConfig.model = "det"
    /\ hNames[1] = hConfig.locs[1].name \o <<" ", "(", "Deterministic", ")">>
    /\ hPlaceholders[1] = hPages[1]

====
